---- MODULE Spec2Model ----
(***************************************************************************)
(* A model of the Mach-O reader of src/read/macho.rs.                      *)
(*                                                                         *)
(* The input buffer is a sequence of bytes.  Every record the reader       *)
(* borrows from the buffer (&'data T) is modelled by the offset of its     *)
(* first byte, every Bytes<'data> view by the half-open range [lo, hi) of  *)
(* buffer offsets it covers, and every field accessor by a read of the     *)
(* field's bytes at its offset in the record, in the file's endianness.    *)
(* A 32-bit word is kept as its four bytes, most significant first, so     *)
(* that words above 2^31 (the magics, LC_MAIN) stay comparable; a word     *)
(* used as a size or an offset (`as usize`) is converted by Val.           *)
(*                                                                         *)
(* The reader is generic in Mach: MachHeader; is64 is that type parameter  *)
(* (FALSE: MachHeader32, TRUE: MachHeader64), with Endian = RunTimeEndian  *)
(* as in the MachOFile32 / MachOFile64 aliases.                            *)
(***************************************************************************)
EXTENDS Integers, Sequences, FiniteSets, TLC

VARIABLES
    is64,   \* the Mach type parameter of MachOFile<Mach>
    data,   \* the input buffer, a sequence of bytes
    pc,     \* where MachOFile::parse stands: "start", "loop", "parsed", "failed"
    st,     \* the locals of parse while it runs
    file,   \* the MachOFile parse returned
    err,    \* the Error parse returned
    op,     \* the operation a caller is running on the file
    cur,    \* that operation's cursor (an iterator's state)
    out,    \* what that operation's iterator has yielded so far
    ret     \* what the last call returned

vars == <<is64, data, pc, st, file, err, op, cur, out, ret>>

-----------------------------------------------------------------------------
(* Bounds of the model. *)

\* The longest load-command stream the inputs are built from.
MaxCmds == 2

-----------------------------------------------------------------------------
(* Words and endianness (crate::endian). *)

\* The largest number the model counts to.  Every buffer is far shorter, and
\* the reader only compares file-supplied sizes with lengths, so a larger
\* size is kept as this one.
Huge == 2147483647

\* The value of the byte string w as a number, most significant byte first,
\* while that value is below Huge.
RECURSIVE SmallVal(_)
SmallVal(w) ==
    IF Len(w) = 0 THEN 0 ELSE SmallVal(SubSeq(w, 1, Len(w) - 1)) * 256 + w[Len(w)]

\* `word as usize`: the value of a word given most significant byte first.
Val(w) ==
    LET n == Len(w)
        high == IF n > 4 THEN SubSeq(w, 1, n - 4) ELSE <<>>
        low == IF n > 4 THEN SubSeq(w, n - 3, n) ELSE w
    IN  IF (\E i \in 1..Len(high) : high[i] # 0) \/ (Len(low) = 4 /\ low[1] >= 128)
        THEN Huge
        ELSE SmallVal(low)

Reverse(s) == [i \in 1..Len(s) |-> s[Len(s) + 1 - i]]

\* U32<E>::get(endian) and U64<E>::get(endian) on the n bytes at offset off:
\* the word, most significant byte first.
get(d, off, n, e) ==
    LET raw == [i \in 1..n |-> d[off + i]]
    IN  IF e = "big" THEN raw ELSE Reverse(raw)

get32(d, off, e) == get(d, off, 4, e)

\* RunTimeEndian::from_big_endian
from_big_endian(big) == IF big THEN "big" ELSE "little"

-----------------------------------------------------------------------------
(* Results. *)

Err(m) == [tag |-> "Err", msg |-> m]
OkNone == [tag |-> "None", msg |-> ""]
OkSome(v) == [tag |-> "Some", msg |-> "", val |-> v]
\* No call has returned yet.
NotCalled == [tag |-> "NotCalled", msg |-> ""]

IsErr(r) == r.tag = "Err"
IsSome(r) == r.tag = "Some"
IsNone(r) == r.tag = "None"

-----------------------------------------------------------------------------
(* The safe-slice reader (crate::pod::Bytes).  A view is [lo, hi).  Every  *)
(* read answers [ok, val, rest]: whether the range fits, what was read,    *)
(* and the view left behind (empty after a failed read).                   *)

Bytes(d) == [lo |-> 0, hi |-> Len(d)]
EmptyBytes == [lo |-> 0, hi |-> 0]
BLen(v) == v.hi - v.lo

\* The bytes a view covers.
Content(d, v) == [i \in 1..BLen(v) |-> d[v.lo + i]]

Failed == [ok |-> FALSE, val |-> 0, rest |-> EmptyBytes]

\* Bytes::read::<T>(&mut self), with size = size_of::<T>(): the record at
\* the front of the view.
read(v, size) ==
    IF size <= BLen(v)
    THEN [ok |-> TRUE, val |-> v.lo, rest |-> [lo |-> v.lo + size, hi |-> v.hi]]
    ELSE Failed

\* Bytes::read_at::<T>(self, offset)
read_at(v, offset, size) ==
    IF offset <= BLen(v)
    THEN read([lo |-> v.lo + offset, hi |-> v.hi], size)
    ELSE Failed

\* Bytes::read_bytes(&mut self, count): val is the view of the first count bytes.
read_bytes(v, count) ==
    IF count <= BLen(v)
    THEN [ok |-> TRUE,
          val |-> [lo |-> v.lo, hi |-> v.lo + count],
          rest |-> [lo |-> v.lo + count, hi |-> v.hi]]
    ELSE [ok |-> FALSE, val |-> EmptyBytes, rest |-> EmptyBytes]

\* Bytes::read_bytes_at(self, offset, count)
read_bytes_at(v, offset, count) ==
    IF offset <= BLen(v)
    THEN read_bytes([lo |-> v.lo + offset, hi |-> v.hi], count)
    ELSE [ok |-> FALSE, val |-> EmptyBytes, rest |-> EmptyBytes]

\* Bytes::read_slice_at::<T>(self, offset, count): val is the slice, given by
\* the offset of its first record and its length.
read_slice_at(v, offset, count, size) ==
    IF offset <= BLen(v) /\ count <= BLen(v) /\ count * size <= BLen(v) - offset
    THEN [ok |-> TRUE, val |-> [off |-> v.lo + offset, n |-> count]]
    ELSE [ok |-> FALSE, val |-> [off |-> 0, n |-> 0]]

-----------------------------------------------------------------------------
(* The on-disk layout (crate::macho): record sizes, field offsets and      *)
(* constants of the Mach-O format.                                         *)

MachHeader32Size == 28
MachHeader64Size == 32
LoadCommandSize == 8
SegmentCommand32Size == 56
SegmentCommand64Size == 72
Section32Size == 68
Section64Size == 80
SymtabCommandSize == 24
UuidCommandSize == 24
EntryPointCommandSize == 24
RelocationSize == 8
Nlist32Size == 12
Nlist64Size == 16

MH_MAGIC == <<254, 237, 250, 206>>
MH_CIGAM == <<206, 250, 237, 254>>
MH_MAGIC_64 == <<254, 237, 250, 207>>
MH_CIGAM_64 == <<207, 250, 237, 254>>
FAT_MAGIC == <<202, 254, 186, 190>>

LC_SEGMENT == <<0, 0, 0, 1>>
LC_SYMTAB == <<0, 0, 0, 2>>
LC_DYSYMTAB == <<0, 0, 0, 11>>
LC_SEGMENT_64 == <<0, 0, 0, 25>>
LC_UUID == <<0, 0, 0, 27>>
LC_MAIN == <<128, 0, 0, 40>>

N_STAB == 224
N_PEXT == 16
N_TYPE == 14
N_EXT == 1
N_UNDF == 0
N_ABS == 2
N_SECT == 14

\* size_of::<Mach>(), size_of::<Mach::Segment>(), ...
HeaderSize(m64) == IF m64 THEN MachHeader64Size ELSE MachHeader32Size
SegmentSize(m64) == IF m64 THEN SegmentCommand64Size ELSE SegmentCommand32Size
SectionSize(m64) == IF m64 THEN Section64Size ELSE Section32Size
NlistSize(m64) == IF m64 THEN Nlist64Size ELSE Nlist32Size
WordSize(m64) == IF m64 THEN 8 ELSE 4

\* x & mask on bytes, for the masks the reader uses.
RECURSIVE BitAnd(_, _)
BitAnd(x, m) ==
    IF x = 0 \/ m = 0 THEN 0
    ELSE 2 * BitAnd(x \div 2, m \div 2) + (IF x % 2 = 1 /\ m % 2 = 1 THEN 1 ELSE 0)

-----------------------------------------------------------------------------
(* impl MachHeader for MachHeader32 / MachHeader64.  h is the header's     *)
(* offset in the buffer.                                                   *)

\* self.magic.get(BigEndian)
magic(d, h) == get32(d, h, "big")

\* is_big_endian with the 32-bit and the 64-bit magic taken for each other.
is_big_endian_any_width(d, h, m64) == magic(d, h) \in {MH_MAGIC, MH_MAGIC_64}

is_big_endian(d, h, m64) == magic(d, h) = (IF m64 THEN MH_MAGIC_64 ELSE MH_MAGIC)
is_little_endian(d, h, m64) == magic(d, h) = (IF m64 THEN MH_CIGAM_64 ELSE MH_CIGAM)
is_supported(d, h, m64) == is_little_endian(d, h, m64) \/ is_big_endian(d, h, m64)
endian(d, h, m64) == from_big_endian(is_big_endian(d, h, m64))

cputype(d, h, e) == get32(d, h + 4, e)
ncmds(d, h, e) == get32(d, h + 16, e)
sizeofcmds(d, h, e) == get32(d, h + 20, e)
flags(d, h, e) == get32(d, h + 24, e)

\* MachHeader::load_commands: the iterator over the sizeofcmds bytes that
\* follow the header, or the error.
load_commands(d, h, m64, e, v) ==
    LET r == read_bytes_at(v, HeaderSize(m64), Val(sizeofcmds(d, h, e)))
    IN  IF ~r.ok THEN Err("Invalid Mach-O load command table size")
        ELSE OkSome([data |-> r.val, ncmds |-> Val(ncmds(d, h, e))])

-----------------------------------------------------------------------------
(* MachOLoadCommandIterator and MachOLoadCommand.  An iterator is          *)
(* [data, ncmds]; a command is [cmd, data], data spanning the command.     *)

\* MachOLoadCommandIterator::next with ncmds decremented before the reads.
MachOLoadCommandIterator_next_early_dec(d, e, it) ==
    IF it.ncmds = 0 THEN [res |-> OkNone, it |-> it]
    ELSE
        LET header == read_at(it.data, 0, LoadCommandSize)
            less == [it EXCEPT !.ncmds = @ - 1]
        IN  IF ~header.ok
            THEN [res |-> Err("Invalid Mach-O load command header"), it |-> less]
            ELSE
                LET r == read_bytes(it.data, Val(get32(d, header.val + 4, e)))
                IN  IF ~r.ok
                    THEN [res |-> Err("Invalid Mach-O load command size"),
                          it |-> [less EXCEPT !.data = r.rest]]
                    ELSE [res |-> OkSome([cmd |-> get32(d, header.val, e), data |-> r.val]),
                          it |-> [less EXCEPT !.data = r.rest]]

\* MachOLoadCommandIterator::next counting a command only when it has bytes.
MachOLoadCommandIterator_next_counts_bytes(d, e, it) ==
    IF it.ncmds = 0 THEN [res |-> OkNone, it |-> it]
    ELSE
        LET header == read_at(it.data, 0, LoadCommandSize)
        IN  IF ~header.ok
            THEN [res |-> Err("Invalid Mach-O load command header"), it |-> it]
            ELSE
                LET cmd == get32(d, header.val, e)
                    cmdsize == Val(get32(d, header.val + 4, e))
                    r == read_bytes(it.data, cmdsize)
                IN  IF ~r.ok
                    THEN [res |-> Err("Invalid Mach-O load command size"),
                          it |-> [it EXCEPT !.data = r.rest]]
                    ELSE [res |-> OkSome([cmd |-> cmd, data |-> r.val]),
                          it |-> [data |-> r.rest,
                                  ncmds |-> IF cmdsize = 0 THEN it.ncmds
                                            ELSE it.ncmds - 1]]

\* MachOLoadCommandIterator::next: [res, it], the result and the iterator
\* after the call.
MachOLoadCommandIterator_next(d, e, it) ==
    IF it.ncmds = 0 THEN [res |-> OkNone, it |-> it]
    ELSE
        LET header == read_at(it.data, 0, LoadCommandSize)
        IN  IF ~header.ok
            THEN [res |-> Err("Invalid Mach-O load command header"), it |-> it]
            ELSE
                LET cmd == get32(d, header.val, e)
                    cmdsize == Val(get32(d, header.val + 4, e))
                    r == read_bytes(it.data, cmdsize)
                IN  IF ~r.ok
                    THEN [res |-> Err("Invalid Mach-O load command size"),
                          it |-> [it EXCEPT !.data = r.rest]]
                    ELSE [res |-> OkSome([cmd |-> cmd, data |-> r.val]),
                          it |-> [data |-> r.rest, ncmds |-> it.ncmds - 1]]

\* MachOLoadCommand::segment_32: the segment command and the bytes after it.
segment_32(c) ==
    IF c.cmd = LC_SEGMENT
    THEN LET r == read(c.data, SegmentCommand32Size)
         IN  IF ~r.ok THEN Err("Invalid Mach-O LC_SEGMENT command size")
             ELSE OkSome([command |-> r.val, data |-> r.rest])
    ELSE OkNone

\* MachOLoadCommand::segment_64
segment_64(c) ==
    IF c.cmd = LC_SEGMENT_64
    THEN LET r == read(c.data, SegmentCommand64Size)
         IN  IF ~r.ok THEN Err("Invalid Mach-O LC_SEGMENT_64 command size")
             ELSE OkSome([command |-> r.val, data |-> r.rest])
    ELSE OkNone

\* MachOLoadCommand::symtab
symtab(c) ==
    IF c.cmd = LC_SYMTAB
    THEN LET r == read(c.data, SymtabCommandSize)
         IN  IF ~r.ok THEN Err("Invalid Mach-O LC_SYMTAB command size")
             ELSE OkSome(r.val)
    ELSE OkNone

\* uuid with a body that does not fit taken for a command of another kind.
uuid_swallow(c) ==
    IF c.cmd = LC_UUID /\ read(c.data, UuidCommandSize).ok
    THEN OkSome(read(c.data, UuidCommandSize).val)
    ELSE OkNone

\* MachOLoadCommand::uuid
uuid(c) ==
    IF c.cmd = LC_UUID
    THEN LET r == read(c.data, UuidCommandSize)
         IN  IF ~r.ok THEN Err("Invalid Mach-O LC_UUID command size")
             ELSE OkSome(r.val)
    ELSE OkNone

\* MachOLoadCommand::entry_point
entry_point(c) ==
    IF c.cmd = LC_MAIN
    THEN LET r == read(c.data, EntryPointCommandSize)
         IN  IF ~r.ok THEN Err("Invalid Mach-O LC_MAIN command size")
             ELSE OkSome(r.val)
    ELSE OkNone

\* Segment::from_command of Mach::Segment
from_command(m64, c) == IF m64 THEN segment_64(c) ELSE segment_32(c)

-----------------------------------------------------------------------------
(* Segment and Section records.                                            *)

\* Segment::nsects
nsects(d, seg, m64, e) == get32(d, seg + (IF m64 THEN 64 ELSE 48), e)

\* Segment::sections cut down to the section records that fit.
sections_as_many_as_fit(d, seg, m64, e, v) ==
    LET n == Val(nsects(d, seg, m64, e))
        fit == BLen(v) \div SectionSize(m64)
        r == read_slice_at(v, 0, IF n <= fit THEN n ELSE fit, SectionSize(m64))
    IN  IF ~r.ok THEN Err("Invalid Mach-O number of sections") ELSE OkSome(r.val)

\* Segment::sections: the slice of nsects section records at the front of
\* the bytes that follow the segment command.
sections(d, seg, m64, e, v) ==
    LET r == read_slice_at(v, 0, Val(nsects(d, seg, m64, e)), SectionSize(m64))
    IN  IF ~r.ok THEN Err("Invalid Mach-O number of sections") ELSE OkSome(r.val)

\* The bytes of a 16-byte name field up until the null terminator.
TrimNul(raw) ==
    LET zs == {i \in 1..Len(raw) : raw[i] = 0}
    IN  IF zs = {} THEN raw
        ELSE SubSeq(raw, 1, (CHOOSE i \in zs : \A j \in zs : i <= j) - 1)

\* Section::name
name(d, sec) == TrimNul([i \in 1..16 |-> d[sec + i]])

\* Section::segment_name
segment_name(d, sec) == TrimNul([i \in 1..16 |-> d[sec + 16 + i]])

SECTION_TYPE == 255
S_ZEROFILL == 1
S_GB_ZEROFILL == 12
S_THREAD_LOCAL_ZEROFILL == 18

B_dot == <<46>>
B__ == <<95, 95>>
B__TEXT == <<95, 95, 84, 69, 88, 84>>
B__DATA == <<95, 95, 68, 65, 84, 65>>
B__DWARF == <<95, 95, 68, 87, 65, 82, 70>>
B__text == <<95, 95, 116, 101, 120, 116>>
B__const == <<95, 95, 99, 111, 110, 115, 116>>
B__cstring == <<95, 95, 99, 115, 116, 114, 105, 110, 103>>
B__literal4 == <<95, 95, 108, 105, 116, 101, 114, 97, 108, 52>>
B__literal8 == <<95, 95, 108, 105, 116, 101, 114, 97, 108, 56>>
B__literal16 == <<95, 95, 108, 105, 116, 101, 114, 97, 108, 49, 54>>
B__eh_frame == <<95, 95, 101, 104, 95, 102, 114, 97, 109, 101>>
B__gcc_except_tab == <<95, 95, 103, 99, 99, 95, 101, 120, 99, 101, 112, 116, 95, 116, 97, 98>>
B__data == <<95, 95, 100, 97, 116, 97>>
B__bss == <<95, 95, 98, 115, 115>>
B__common == <<95, 95, 99, 111, 109, 109, 111, 110>>
B__thread_data == <<95, 95, 116, 104, 114, 101, 97, 100, 95, 100, 97, 116, 97>>
B__thread_bss == <<95, 95, 116, 104, 114, 101, 97, 100, 95, 98, 115, 115>>
B__thread_vars == <<95, 95, 116, 104, 114, 101, 97, 100, 95, 118, 97, 114, 115>>

\* The match of MachOSectionInternal::parse, first arm first.
SectionKindOf(seg, sect) ==
    CASE seg = B__TEXT /\ sect = B__text -> "Text"
      [] seg = B__TEXT /\ sect = B__const -> "ReadOnlyData"
      [] seg = B__TEXT /\ sect = B__cstring -> "ReadOnlyString"
      [] seg = B__TEXT /\ sect = B__literal4 -> "ReadOnlyData"
      [] seg = B__TEXT /\ sect = B__literal8 -> "ReadOnlyData"
      [] seg = B__TEXT /\ sect = B__literal16 -> "ReadOnlyData"
      [] seg = B__TEXT /\ sect = B__eh_frame -> "ReadOnlyData"
      [] seg = B__TEXT /\ sect = B__gcc_except_tab -> "ReadOnlyData"
      [] seg = B__DATA /\ sect = B__data -> "Data"
      [] seg = B__DATA /\ sect = B__const -> "ReadOnlyData"
      [] seg = B__DATA /\ sect = B__bss -> "UninitializedData"
      [] seg = B__DATA /\ sect = B__common -> "Common"
      [] seg = B__DATA /\ sect = B__thread_data -> "Tls"
      [] seg = B__DATA /\ sect = B__thread_bss -> "UninitializedTls"
      [] seg = B__DATA /\ sect = B__thread_vars -> "TlsVariables"
      [] seg = B__DWARF -> "Debug"
      [] OTHER -> "Unknown"

\* MachOSectionInternal::parse
MachOSectionInternal_parse(d, index, sec) ==
    [index |-> index,
     kind |-> SectionKindOf(segment_name(d, sec), name(d, sec)),
     section |-> sec]

\* MachOFile::section_internal
section_internal(f, index) ==
    IF index >= 1 /\ index - 1 < Len(f.sections)
    THEN OkSome(f.sections[index])
    ELSE Err("Invalid Mach-O section index")

\* MachOFile::section_by_index: the MachOSection, given by its internal
\* descriptor (its file is the receiver).
section_by_index(f, index) == section_internal(f, index)

-----------------------------------------------------------------------------
(* Symbols.                                                                *)

N_WEAK_MASK == 192

\* Nlist accessors; nl is the record's offset.
n_strx(d, nl, e) == get32(d, nl, e)
n_type(d, nl) == d[nl + 5]
n_sect(d, nl) == d[nl + 6]
n_desc(d, nl, e) == get(d, nl + 6, 2, e)
n_value(d, nl, m64, e) == get(d, nl + 8, WordSize(m64), e)

\* StringTable::get: the bytes from offset up to the NUL that ends them.
StringTable_get(d, strings, offset) ==
    LET zs == {i \in (strings.lo + offset)..(strings.hi - 1) : d[i + 1] = 0}
    IN  IF offset > BLen(strings) \/ zs = {} THEN [ok |-> FALSE, val |-> <<>>]
        ELSE LET z == CHOOSE i \in zs : \A j \in zs : i <= j
             IN  [ok |-> TRUE, val |-> [i \in 1..(z - strings.lo - offset) |-> d[strings.lo + offset + i]]]

\* Whether the bytes at positions i.. of s are continuation bytes 80..BF.
Cont(s, i) == i <= Len(s) /\ s[i] >= 128 /\ s[i] <= 191

\* str::from_utf8(s).is_ok(), from position i on.
RECURSIVE Utf8From(_, _)
Utf8From(s, i) ==
    IF i > Len(s) THEN TRUE
    ELSE LET b == s[i] IN
         CASE b <= 127 -> Utf8From(s, i + 1)
           [] b >= 194 /\ b <= 223 -> Cont(s, i + 1) /\ Utf8From(s, i + 2)
           [] b >= 224 /\ b <= 239 ->
                /\ Cont(s, i + 1) /\ Cont(s, i + 2)
                /\ (b = 224 => s[i + 1] >= 160)
                /\ (b = 237 => s[i + 1] <= 159)
                /\ Utf8From(s, i + 3)
           [] b >= 240 /\ b <= 244 ->
                /\ Cont(s, i + 1) /\ Cont(s, i + 2) /\ Cont(s, i + 3)
                /\ (b = 240 => s[i + 1] >= 144)
                /\ (b = 244 => s[i + 1] <= 143)
                /\ Utf8From(s, i + 4)
           [] OTHER -> FALSE

from_utf8_ok(s) == Utf8From(s, 1)

NoIndex == 0
SymbolSection(tag, index) == [tag |-> tag, index |-> index]

\* SymbolSectionOf without the test of n_sect against 0.
SymbolSectionOf_any_sect(d, nl) ==
    LET t == BitAnd(n_type(d, nl), N_TYPE)
    IN  CASE t = N_UNDF -> SymbolSection("Undefined", NoIndex)
          [] t = N_ABS -> SymbolSection("Absolute", NoIndex)
          [] t = N_SECT -> SymbolSection("Section", n_sect(d, nl))
          [] OTHER -> SymbolSection("Unknown", NoIndex)

\* The section of parse_symbol, from n_type & N_TYPE and n_sect.
SymbolSectionOf(d, nl) ==
    LET t == BitAnd(n_type(d, nl), N_TYPE)
    IN  CASE t = N_UNDF -> SymbolSection("Undefined", NoIndex)
          [] t = N_ABS -> SymbolSection("Absolute", NoIndex)
          [] t = N_SECT ->
                IF n_sect(d, nl) # 0
                THEN SymbolSection("Section", n_sect(d, nl))
                ELSE SymbolSection("Unknown", NoIndex)
          [] OTHER -> SymbolSection("Unknown", NoIndex)

\* The kind of parse_symbol, from the kind of the symbol's section.
SymbolKindOf(f, section) ==
    IF section.tag = "Section" /\ IsSome(section_internal(f, section.index))
    THEN LET k == section_internal(f, section.index).val.kind
         IN  CASE k = "Text" -> "Text"
               [] k \in {"Data", "ReadOnlyData", "ReadOnlyString",
                         "UninitializedData", "Common"} -> "Data"
               [] k \in {"Tls", "UninitializedTls", "TlsVariables"} -> "Tls"
               [] OTHER -> "Unknown"
    ELSE "Unknown"

\* SymbolScopeOf without the case of an undefined symbol.
SymbolScopeOf_defined_only(d, nl, section) ==
    IF BitAnd(n_type(d, nl), N_EXT) = 0 THEN "Compilation"
    ELSE IF BitAnd(n_type(d, nl), N_PEXT) # 0 THEN "Linkage"
    ELSE "Dynamic"

\* The scope of parse_symbol.
SymbolScopeOf(d, nl, section) ==
    IF section.tag = "Undefined" THEN "Unknown"
    ELSE IF BitAnd(n_type(d, nl), N_EXT) = 0 THEN "Compilation"
    ELSE IF BitAnd(n_type(d, nl), N_PEXT) # 0 THEN "Linkage"
    ELSE "Dynamic"

\* parse_symbol: None for an N_STAB entry, else the Symbol.
parse_symbol(d, f, m64, nl, strings) ==
    LET s == StringTable_get(d, strings, Val(n_strx(d, nl, f.endian)))
        section == SymbolSectionOf(d, nl)
    IN  IF BitAnd(n_type(d, nl), N_STAB) # 0 THEN OkNone
        ELSE OkSome([name |-> IF s.ok /\ from_utf8_ok(s.val)
                               THEN [some |-> TRUE, val |-> s.val]
                               ELSE [some |-> FALSE, val |-> <<>>],
                     address |-> n_value(d, nl, m64, f.endian),
                     size |-> 0,
                     kind |-> SymbolKindOf(f, section),
                     section |-> section,
                     weak |-> BitAnd(Val(n_desc(d, nl, f.endian)), N_WEAK_MASK) # 0,
                     scope |-> SymbolScopeOf(d, nl, section),
                     flags |-> n_desc(d, nl, f.endian)])

\* The nlist at position index of a symbol slice.
NlistAt(m64, symbols, index) == symbols.off + index * NlistSize(m64)

\* symbol_by_index counting positions from 1, as section_by_index does.
symbol_by_index_from_one(d, f, m64, index) ==
    IF index < 1 \/ index - 1 >= f.symbols.symbols.n THEN Err("Invalid Mach-O symbol index")
    ELSE LET s == parse_symbol(d, f, m64, NlistAt(m64, f.symbols.symbols, index - 1),
                               f.symbols.strings)
         IN  IF IsSome(s) THEN s ELSE Err("Unsupported Mach-O symbol index")

\* MachOFile::symbol_by_index
symbol_by_index(d, f, m64, index) ==
    IF index >= f.symbols.symbols.n THEN Err("Invalid Mach-O symbol index")
    ELSE LET s == parse_symbol(d, f, m64, NlistAt(m64, f.symbols.symbols, index),
                               f.symbols.strings)
         IN  IF IsSome(s) THEN s ELSE Err("Unsupported Mach-O symbol index")

\* MachOSymbolIterator::next with the index read after its increment.
RECURSIVE MachOSymbolIterator_next_post(_, _, _, _)
MachOSymbolIterator_next_post(d, f, m64, index) ==
    IF index >= f.symbols.symbols.n THEN [res |-> OkNone, index |-> index]
    ELSE LET s == parse_symbol(d, f, m64, NlistAt(m64, f.symbols.symbols, index),
                               f.symbols.strings)
         IN  IF IsSome(s)
             THEN [res |-> OkSome([index |-> index + 1, symbol |-> s.val]),
                   index |-> index + 1]
             ELSE MachOSymbolIterator_next_post(d, f, m64, index + 1)

\* MachOSymbolIterator::next: [res, index], the item and the iterator's index
\* after the call.
RECURSIVE MachOSymbolIterator_next(_, _, _, _)
MachOSymbolIterator_next(d, f, m64, index) ==
    IF index >= f.symbols.symbols.n THEN [res |-> OkNone, index |-> index]
    ELSE LET s == parse_symbol(d, f, m64, NlistAt(m64, f.symbols.symbols, index),
                               f.symbols.strings)
         IN  IF IsSome(s)
             THEN [res |-> OkSome([index |-> index, symbol |-> s.val]), index |-> index + 1]
             ELSE MachOSymbolIterator_next(d, f, m64, index + 1)

-----------------------------------------------------------------------------
(* MachOFile::parse, one loop iteration at a time.                         *)

EmptySlice == [off |-> 0, n |-> 0]

\* The locals of parse: endian, header, symbols, strings, sections, commands.
ParseLocals(e, commands) ==
    [endian |-> e, header |-> 0, symbols |-> EmptySlice, strings |-> EmptyBytes,
     sections |-> <<>>, commands |-> commands]

NoLocals == ParseLocals("big", [data |-> EmptyBytes, ncmds |-> 0])

\* The MachOFile parse builds from its locals.
MachOFile(d, s) ==
    [endian |-> s.endian, header |-> s.header, sections |-> s.sections,
     symbols |-> [symbols |-> s.symbols, strings |-> s.strings],
     data |-> Bytes(d)]

NoFile == MachOFile(<<>>, NoLocals)

\* parse up to its loop: [pc, st, file, err].
parse_begin(d, m64) ==
    LET header == read_at(Bytes(d), 0, HeaderSize(m64))
    IN  IF ~header.ok
        THEN [pc |-> "failed", st |-> NoLocals, file |-> NoFile,
              err |-> "Invalid Mach-O header size or alignment"]
        ELSE IF ~is_supported(d, header.val, m64)
        THEN [pc |-> "failed", st |-> NoLocals, file |-> NoFile,
              err |-> "Unsupported Mach-O header"]
        ELSE
            LET e == endian(d, header.val, m64)
                commands == load_commands(d, header.val, m64, e, Bytes(d))
            IN  IF IsSome(commands)
                THEN [pc |-> "loop", st |-> ParseLocals(e, commands.val),
                      file |-> NoFile, err |-> ""]
                ELSE [pc |-> "parsed", st |-> NoLocals,
                      file |-> MachOFile(d, ParseLocals(e, NoLocals.commands)),
                      err |-> ""]

\* PushSections with the indices counted from 0.
PushSections_from_zero(d, m64, secs, slice) ==
    secs \o [k \in 1..slice.n |->
                MachOSectionInternal_parse(d, Len(secs) + k - 1,
                                           slice.off + (k - 1) * SectionSize(m64))]

\* The sections a segment appends to the list, indexed from the list's length.
PushSections(d, m64, secs, slice) ==
    secs \o [k \in 1..slice.n |->
                MachOSectionInternal_parse(d, Len(secs) + k,
                                           slice.off + (k - 1) * SectionSize(m64))]

\* The symbol slice and the string bytes of an LC_SYMTAB: [tag, msg, symbols, strings].
ReadSymtab(d, m64, e, cmd) ==
    LET symbols == read_slice_at(Bytes(d), Val(get32(d, cmd + 8, e)),
                                 Val(get32(d, cmd + 12, e)), NlistSize(m64))
        strings == read_bytes_at(Bytes(d), Val(get32(d, cmd + 16, e)),
                                 Val(get32(d, cmd + 20, e)))
    IN  IF ~symbols.ok
        THEN [tag |-> "Err", msg |-> "Invalid Mach-O symbol table offset or size",
              symbols |-> EmptySlice, strings |-> EmptyBytes]
        ELSE IF ~strings.ok
        THEN [tag |-> "Err", msg |-> "Invalid Mach-O string table offset or size",
              symbols |-> EmptySlice, strings |-> EmptyBytes]
        ELSE [tag |-> "Some", msg |-> "", symbols |-> symbols.val, strings |-> strings.val]

\* The body of parse's loop on one command: [tag, msg, st].
parse_command(d, m64, s, command) ==
    LET seg == from_command(m64, command)
    IN  IF IsErr(seg) THEN [tag |-> "Err", msg |-> seg.msg, st |-> s]
        ELSE IF IsSome(seg)
        THEN LET slice == sections(d, seg.val.command, m64, s.endian, seg.val.data)
             IN  IF IsErr(slice) THEN [tag |-> "Err", msg |-> slice.msg, st |-> s]
                 ELSE [tag |-> "Some", msg |-> "",
                       st |-> [s EXCEPT !.sections = PushSections(d, m64, @, slice.val)]]
        ELSE LET sy == symtab(command)
             IN  IF IsErr(sy) THEN [tag |-> "Err", msg |-> sy.msg, st |-> s]
                 ELSE IF IsSome(sy)
                 THEN LET t == ReadSymtab(d, m64, s.endian, sy.val)
                      IN  IF IsErr(t) THEN [tag |-> "Err", msg |-> t.msg, st |-> s]
                          ELSE [tag |-> "Some", msg |-> "",
                                st |-> [s EXCEPT !.symbols = t.symbols,
                                                 !.strings = t.strings]]
                 ELSE [tag |-> "Some", msg |-> "", st |-> s]

\* One iteration of `while let Ok(Some(command)) = commands.next()`, and the
\* construction of the file when the loop ends: [pc, st, file, err].
parse_step(d, m64, s) ==
    LET n == MachOLoadCommandIterator_next(d, s.endian, s.commands)
    IN  IF ~IsSome(n.res)
        THEN [pc |-> "parsed", st |-> s, file |-> MachOFile(d, s), err |-> ""]
        ELSE LET r == parse_command(d, m64, [s EXCEPT !.commands = n.it], n.res.val)
             IN  IF IsErr(r)
                 THEN [pc |-> "failed", st |-> s, file |-> NoFile, err |-> r.msg]
                 ELSE [pc |-> "loop", st |-> r.st, file |-> NoFile, err |-> ""]

ParseBegin ==
    /\ pc = "start"
    /\ LET r == parse_begin(data, is64)
       IN  pc' = r.pc /\ st' = r.st /\ file' = r.file /\ err' = r.err
    /\ UNCHANGED <<is64, data, op, cur, out, ret>>

ParseStep ==
    /\ pc = "loop"
    /\ LET r == parse_step(data, is64, st)
       IN  pc' = r.pc /\ st' = r.st /\ file' = r.file /\ err' = r.err
    /\ UNCHANGED <<is64, data, op, cur, out, ret>>

-----------------------------------------------------------------------------
(* The input buffers: Mach-O images laid out as the format says (header,   *)
(* load commands, then the symbol and string tables), built from a stream  *)
(* of command templates, some of them malformed.                           *)

W32(n) == <<(n \div 16777216) % 256, (n \div 65536) % 256, (n \div 256) % 256, n % 256>>
EncWord(w, e) == IF e = "big" THEN w ELSE Reverse(w)
Enc32(n, e) == EncWord(W32(n), e)
Enc16(n, e) == EncWord(<<(n \div 256) % 256, n % 256>>, e)
EncW(n, w64, e) == IF w64 THEN EncWord(<<0, 0, 0, 0>> \o W32(n), e) ELSE Enc32(n, e)
Zeros(n) == [i \in 1..n |-> 0]
Pad16(s) == s \o Zeros(16 - Len(s))

RECURSIVE Flatten(_)
Flatten(ss) == IF Len(ss) = 0 THEN <<>> ELSE Head(ss) \o Flatten(Tail(ss))

CPU_TYPE_X86_64 == <<1, 0, 0, 7>>
CPU_TYPE_X86 == <<0, 0, 0, 7>>
CPU_TYPE_ARM == <<0, 0, 0, 12>>
CPU_TYPE_ARM64 == <<1, 0, 0, 12>>
CPU_TYPE_POWERPC == <<0, 0, 0, 18>>
CPU_TYPE_MIPS == <<0, 0, 0, 8>>

\* A mach_header / mach_header_64.
EncHeader(w64, mag, e, nc, sz) ==
    mag \o EncWord(CPU_TYPE_X86_64, e) \o Enc32(3, e) \o Enc32(1, e)
        \o Enc32(nc, e) \o Enc32(sz, e) \o Enc32(133, e)
        \o (IF w64 THEN Enc32(0, e) ELSE <<>>)

\* A section / section_64 record.
EncSection(w64, e, sec) ==
    Pad16(sec.sect) \o Pad16(sec.seg) \o EncW(sec.addr, w64, e) \o EncW(sec.size, w64, e)
        \o Enc32(0, e) \o Enc32(2, e) \o Enc32(0, e) \o Enc32(0, e) \o Enc32(0, e)
        \o Enc32(0, e) \o Enc32(0, e) \o (IF w64 THEN Enc32(0, e) ELSE <<>>)

\* A section / section_64 record with its offset, relocations and flags.
EncFileSection(w64, e, sec) ==
    Pad16(sec.sect) \o Pad16(sec.seg) \o EncW(sec.addr, w64, e) \o EncW(sec.size, w64, e)
        \o Enc32(sec.offset, e) \o Enc32(2, e) \o Enc32(sec.reloff, e)
        \o Enc32(sec.nreloc, e) \o Enc32(sec.sflags, e)
        \o Enc32(0, e) \o Enc32(0, e) \o (IF w64 THEN Enc32(0, e) ELSE <<>>)

\* A segment command of the file's width over the sections secs.
EncFileSegment(w64, e, segname, secs) ==
    EncWord(IF w64 THEN LC_SEGMENT_64 ELSE LC_SEGMENT, e)
        \o Enc32(SegmentSize(w64) + Len(secs) * SectionSize(w64), e)
        \o Pad16(segname) \o EncW(4096, w64, e) \o EncW(4096, w64, e)
        \o EncW(0, w64, e) \o EncW(0, w64, e)
        \o Enc32(7, e) \o Enc32(5, e) \o Enc32(Len(secs), e) \o Enc32(0, e)
        \o Flatten([k \in 1..Len(secs) |-> EncFileSection(w64, e, secs[k])])

\* A section / section_64 record of segment __DATA whose addr and size are
\* given as words.
EncWordsSection(w64, e, sect, addrw, sizew) ==
    Pad16(sect) \o Pad16(B__DATA) \o EncWord(addrw, e) \o EncWord(sizew, e)
        \o Enc32(0, e) \o Enc32(2, e) \o Enc32(0, e) \o Enc32(0, e) \o Enc32(0, e)
        \o Enc32(0, e) \o Enc32(0, e) \o (IF w64 THEN Enc32(0, e) ELSE <<>>)

\* The word of the file's width whose bytes are all 255 but the last, and
\* the word of value n < 256.
AllOnes(w64, last) == [i \in 1..WordSize(w64) |-> IF i = WordSize(w64) THEN last ELSE 255]
EncOne(w64, n) == [i \in 1..WordSize(w64) |-> IF i = WordSize(w64) THEN n ELSE 0]

\* A section record of the inputs.
FileSec(seg, sect, offset, size, fl) ==
    [seg |-> seg, sect |-> sect, addr |-> 4096, size |-> size, offset |-> offset,
     reloff |-> 0, nreloc |-> 0, sflags |-> fl]

Btext == <<116, 101, 120, 116>>
Bnot_utf8 == <<95, 95, 255, 116>>

\* A segment_command / segment_command_64 followed by its section records
\* and `extra` more bytes; nsects and cmdsize as given.
EncSegment(w64, e, segname, secs, ns, cmdsize, extra) ==
    EncWord(IF w64 THEN LC_SEGMENT_64 ELSE LC_SEGMENT, e) \o Enc32(cmdsize, e)
        \o Pad16(segname) \o EncW(4096, w64, e) \o EncW(4096, w64, e)
        \o EncW(0, w64, e) \o EncW(0, w64, e)
        \o Enc32(7, e) \o Enc32(5, e) \o Enc32(ns, e) \o Enc32(0, e)
        \o Flatten([k \in 1..Len(secs) |-> EncSection(w64, e, secs[k])])
        \o Zeros(extra)

SegLen(w64, n) == SegmentSize(w64) + n * SectionSize(w64)

Bfoo == <<102, 111, 111>>
Bbar == <<98, 97, 114>>
B__debug_info == <<95, 95, 100, 101, 98, 117, 103, 95, 105, 110, 102, 111>>

SecText == [seg |-> B__TEXT, sect |-> B__text, addr |-> 4096, size |-> 64]
SecData == [seg |-> B__DATA, sect |-> B__data, addr |-> 8192, size |-> 16]
SecDebug == [seg |-> B__DWARF, sect |-> B__debug_info, addr |-> 0, size |-> 32]
SecTls == [seg |-> B__DATA, sect |-> B__thread_data, addr |-> 4096, size |-> 8]

\* An nlist / nlist_64.
EncNlist(w64, e, strx, type, sect, desc, value) ==
    Enc32(strx, e) \o <<type, sect>> \o Enc16(desc, e) \o EncW(value, w64, e)

\* The symbol array the symbol tables are windows of.
TailSymbols(w64, e) ==
    << EncNlist(w64, e, 1, 15, 1, 0, 4096),     \* N_SECT | N_EXT, section 1, "foo"
       EncNlist(w64, e, 5, 100, 1, 0, 0),       \* N_SO: an N_STAB entry
       EncNlist(w64, e, 5, 14, 3, 128, 8200),   \* N_SECT, section 3, "bar", N_WEAK_DEF
       EncNlist(w64, e, 9, 1, 0, 64, 0),        \* N_UNDF | N_EXT, a name that is not UTF-8
       EncNlist(w64, e, 1, 46, 2, 0, 4100),     \* N_BNSYM: an N_STAB entry
       EncNlist(w64, e, 99, 31, 0, 0, 4128),    \* N_SECT | N_EXT | N_PEXT, section 0, no name
       EncNlist(w64, e, 5, 15, 1, 0, 4096),     \* N_SECT | N_EXT, section 1, at the address of "foo"
       EncNlist(w64, e, 1, 14, 1, 0, 4160),     \* N_SECT, section 1, at the end of __text
       EncNlist(w64, e, 5, 3, 1, 64, 4100) >>   \* N_ABS | N_EXT, N_WEAK_REF

NTailSymbols == Len(TailSymbols(FALSE, "big"))

\* The string table: "\0foo\0bar\0\xff\0".
TailStrings == <<0>> \o Bfoo \o <<0>> \o Bbar \o <<0, 255, 0>>

TailBytes(w64, e) == Flatten(TailSymbols(w64, e)) \o TailStrings

\* An LC_SYMTAB naming nsyms symbols from position first of the array.
EncSymtab(w64, e, tail, cmdsize, first, nsyms, strsize) ==
    EncWord(LC_SYMTAB, e) \o Enc32(cmdsize, e)
        \o Enc32(tail + first * NlistSize(w64), e) \o Enc32(nsyms, e)
        \o Enc32(tail + NTailSymbols * NlistSize(w64), e) \o Enc32(strsize, e)

UuidA == [i \in 1..16 |-> i]
UuidB == [i \in 1..16 |-> 32 + i]

\* The bytes of a command template in a file of width w64 whose tables
\* start at offset tail.
EncCmd(t, w64, e, tail) ==
    CASE t = "seg_text" -> EncSegment(w64, e, B__TEXT, <<SecText>>, 1, SegLen(w64, 1), 0)
      [] t = "seg_data2" ->
            EncSegment(w64, e, B__DATA, <<SecData, SecDebug>>, 2, SegLen(w64, 2), 0)
      [] t = "seg_tls" -> EncSegment(w64, e, B__DATA, <<SecTls>>, 1, SegLen(w64, 1), 0)
      [] t = "seg_wrap" ->
            EncWord(IF w64 THEN LC_SEGMENT_64 ELSE LC_SEGMENT, e)
                \o Enc32(SegLen(w64, 2), e)
                \o Pad16(B__DATA) \o EncW(4096, w64, e) \o EncW(4096, w64, e)
                \o EncW(0, w64, e) \o EncW(0, w64, e)
                \o Enc32(7, e) \o Enc32(5, e) \o Enc32(2, e) \o Enc32(0, e)
                \o EncWordsSection(w64, e, B__data, AllOnes(w64, 240), EncOne(w64, 32))
                \o EncWordsSection(w64, e, B__bss, AllOnes(w64, 255), EncOne(w64, 0))
      [] t = "sec_rel" ->
            EncFileSegment(w64, e, B__TEXT,
                << [FileSec(B__TEXT, B__text, tail, 8, 0) EXCEPT !.reloff = tail, !.nreloc = 2],
                   [FileSec(B__TEXT, B__const, tail, 8, 0)
                        EXCEPT !.reloff = tail + RelocationSize, !.nreloc = 1] >>)
      [] t = "sec_file" ->
            EncFileSegment(w64, e, B__TEXT,
                << FileSec(B__TEXT, B__text, tail, 8, 0),
                   FileSec(B__DATA, B__bss, 5000, 64, S_ZEROFILL),
                   FileSec(B__DWARF, B__debug_info, tail + 4, 5000, 0),
                   FileSec(B__TEXT, B__const, Len(TailBytes(w64, e)) + tail, 0, 1024) >>)
      [] t = "sec_zero" ->
            EncFileSegment(w64, e, B__DATA,
                << FileSec(B__DATA, B__thread_bss, tail, 4, 1024 + S_THREAD_LOCAL_ZEROFILL),
                   FileSec(B__DATA, B__common, 6000, 6000, S_GB_ZEROFILL),
                   FileSec(B__DATA, B__data, 6000, 4, 256 + S_ZEROFILL),
                   FileSec(B__DATA, B__const, 6000, 4, 256) >>)
      [] t = "sec_names" ->
            EncFileSegment(w64, e, B__TEXT,
                << FileSec(B__TEXT, Bnot_utf8, tail, 4, 0),
                   FileSec(B__TEXT, Btext, tail, 4, 0),
                   FileSec(B__TEXT, B__, tail, 4, 0),
                   FileSec(B__TEXT, B_dot \o Btext, tail, 4, 0),
                   FileSec(B__TEXT, B__text, tail + 2, 4, 0) >>)
      [] t = "seg_empty" -> EncSegment(w64, e, B__TEXT, <<>>, 0, SegLen(w64, 0) + 8, 8)
      [] t = "seg_other" ->
            EncSegment(~w64, e, B__TEXT, <<SecText>>, 1, SegLen(~w64, 1), 0)
      [] t = "seg_nsects_bad" ->
            EncSegment(w64, e, B__TEXT, <<SecText>>, 2, SegLen(w64, 1), 0)
      [] t = "seg_short" ->
            EncWord(IF w64 THEN LC_SEGMENT_64 ELSE LC_SEGMENT, e) \o Enc32(16, e) \o Zeros(8)
      [] t = "seg_other_short" ->
            EncWord(IF w64 THEN LC_SEGMENT ELSE LC_SEGMENT_64, e) \o Enc32(16, e) \o Zeros(8)
      [] t = "symtab_a" ->
            EncSymtab(w64, e, tail, SymtabCommandSize, 0, 6, Len(TailStrings))
      [] t = "symtab_c" ->
            EncSymtab(w64, e, tail, SymtabCommandSize, 0, NTailSymbols, Len(TailStrings))
      [] t = "symtab_b" ->
            EncSymtab(w64, e, tail, SymtabCommandSize, 1, 3, Len(TailStrings))
      [] t = "symtab_badsym" ->
            EncSymtab(w64, e, tail, SymtabCommandSize, 0, 100, Len(TailStrings))
      [] t = "symtab_badstr" ->
            EncSymtab(w64, e, tail, SymtabCommandSize, 0, 6, 1000)
      [] t = "symtab_short" -> EncWord(LC_SYMTAB, e) \o Enc32(16, e) \o Zeros(8)
      [] t = "uuid_a" -> EncWord(LC_UUID, e) \o Enc32(UuidCommandSize, e) \o UuidA
      [] t = "uuid_b" -> EncWord(LC_UUID, e) \o Enc32(UuidCommandSize, e) \o UuidB
      [] t = "uuid_short" -> EncWord(LC_UUID, e) \o Enc32(16, e) \o Zeros(8)
      [] t = "main" ->
            EncWord(LC_MAIN, e) \o Enc32(EntryPointCommandSize, e)
                \o EncW(3952, TRUE, e) \o EncW(0, TRUE, e)
      [] t = "main_b" ->
            EncWord(LC_MAIN, e) \o Enc32(EntryPointCommandSize, e)
                \o EncW(7000, TRUE, e) \o EncW(0, TRUE, e)
      [] t = "main_short" -> EncWord(LC_MAIN, e) \o Enc32(12, e) \o Zeros(4)
      [] t = "other" -> EncWord(LC_DYSYMTAB, e) \o Enc32(8, e)
      [] t = "zero" -> EncWord(LC_DYSYMTAB, e) \o Enc32(0, e)
      [] t = "tiny" -> EncWord(LC_DYSYMTAB, e) \o Enc32(4, e)
      [] t = "over" -> EncWord(LC_DYSYMTAB, e) \o Enc32(4000, e)
      [] t = "trunc" -> EncWord(LC_DYSYMTAB, e)

EncCmds(ts, w64, e, tail) == Flatten([k \in 1..Len(ts) |-> EncCmd(ts[k], w64, e, tail)])

\* The image of a file of width w64 and endianness e with magic mag and the
\* commands ts, cut to its first `cut` bytes when cut >= 0.
Image(w64, e, mag, ts, cut) ==
    LET sz == Len(EncCmds(ts, w64, e, 0))
        tail == HeaderSize(w64) + sz
        whole == EncHeader(w64, mag, e, Len(ts), sz) \o EncCmds(ts, w64, e, tail)
                    \o TailBytes(w64, e)
    IN  IF cut < 0 THEN whole ELSE SubSeq(whole, 1, cut)

MagicOf(w64, e) ==
    IF w64 THEN (IF e = "big" THEN MH_MAGIC_64 ELSE MH_CIGAM_64)
    ELSE (IF e = "big" THEN MH_MAGIC ELSE MH_CIGAM)

\* The image of a file with the commands ts whose header says ncmds = nc.
ImageN(w64, e, ts, nc) ==
    LET sz == Len(EncCmds(ts, w64, e, 0))
        tail == HeaderSize(w64) + sz
    IN  EncHeader(w64, MagicOf(w64, e), e, nc, sz) \o EncCmds(ts, w64, e, tail)
            \o TailBytes(w64, e)

\* A mach_header / mach_header_64 of the cputype cpu.
EncHeaderCpu(w64, mag, e, cpu, nc, sz) ==
    mag \o EncWord(cpu, e) \o Enc32(3, e) \o Enc32(1, e)
        \o Enc32(nc, e) \o Enc32(sz, e) \o Enc32(133, e)
        \o (IF w64 THEN Enc32(0, e) ELSE <<>>)

\* A relocation record: r_word0, then r_word1 with its fields packed from
\* the low bits up in a little-endian file and from the high bits down in a
\* big-endian one.
EncReloc(e, r) ==
    EncWord(r.w0, e)
        \o EncWord(IF e = "little"
                   THEN <<r.type * 16 + r.ext * 8 + r.len * 2 + r.pcrel>> \o r.sym
                   ELSE r.sym \o <<r.pcrel * 128 + r.len * 32 + r.ext * 16 + r.type>>, e)

Rel(w0, type, pcrel, len, ext, sym) ==
    [w0 |-> w0, type |-> type, pcrel |-> pcrel, len |-> len, ext |-> ext, sym |-> sym]

\* Records whose order in the array is varied: two plain ones and one with
\* the highest bit of r_word0 set.
OrderEntries ==
    {Rel(<<0, 0, 0, 32>>, 3, 1, 2, 1, <<0, 0, 7>>),
     Rel(<<0, 0, 0, 8>>, 0, 0, 3, 0, <<0, 0, 1>>),
     Rel(<<128, 0, 0, 16>>, 2, 1, 2, 1, <<0, 0, 3>>)}

\* Records with every listed r_type with and without pcrel, unlisted types,
\* every length, both targets.
RelocEntries ==
    OrderEntries \cup
    {Rel(<<0, 0, 0, 4>>, 0, 1, 2, 0, <<0, 0, 2>>),
     Rel(<<0, 0, 1, 0>>, 1, 1, 2, 1, <<0, 1, 0>>),
     Rel(<<0, 0, 0, 12>>, 1, 0, 3, 0, <<0, 0, 1>>),
     Rel(<<0, 0, 0, 20>>, 2, 1, 2, 1, <<0, 0, 5>>),
     Rel(<<0, 0, 0, 24>>, 2, 0, 0, 1, <<0, 0, 5>>),
     Rel(<<0, 0, 0, 28>>, 3, 0, 1, 1, <<0, 0, 7>>),
     Rel(<<0, 0, 0, 36>>, 4, 1, 2, 1, <<0, 0, 9>>),
     Rel(<<0, 0, 0, 40>>, 4, 0, 2, 0, <<0, 0, 2>>),
     Rel(<<0, 1, 2, 3>>, 15, 1, 0, 0, <<171, 205, 239>>),
     Rel(<<0, 0, 0, 44>>, 9, 0, 1, 1, <<0, 0, 0>>)}

CpuTypes == {CPU_TYPE_X86, CPU_TYPE_X86_64, CPU_TYPE_ARM, CPU_TYPE_ARM64, CPU_TYPE_POWERPC}

\* A section record of the inputs with a relocation array.
RelocSec(sect, reloff, nreloc) ==
    [seg |-> B__TEXT, sect |-> sect, addr |-> 4096, size |-> 64, offset |-> 0,
     reloff |-> reloff, nreloc |-> nreloc, sflags |-> 0]

\* The sections of an image whose relocation records start at tail: the
\* whole array, the array claimed one record further on, an array far
\* outside the file, and the array without its first record.
RelocSections(n, tail) ==
    << RelocSec(B__text, tail, n),
       RelocSec(B__data, tail + RelocationSize, n),
       RelocSec(B__const, 6000, 1),
       RelocSec(B__bss, tail + RelocationSize, IF n > 0 THEN n - 1 ELSE 0) >>

\* The image of a file of the cputype cpu with one segment, whose sections
\* share the relocation records rs.
RelocImage(w64, e, cpu, rs) ==
    LET sz == Len(EncFileSegment(w64, e, B__TEXT, RelocSections(Len(rs), 0)))
        tail == HeaderSize(w64) + sz
    IN  EncHeaderCpu(w64, MagicOf(w64, e), e, cpu, 1, sz)
            \o EncFileSegment(w64, e, B__TEXT, RelocSections(Len(rs), tail))
            \o Flatten([k \in 1..Len(rs) |-> EncReloc(e, rs[k])])

\* The sequences of at most n elements of S.
RECURSIVE SeqsUpTo(_, _)
SeqsUpTo(S, n) ==
    IF n = 0 THEN {<<>>}
    ELSE LET shorter == SeqsUpTo(S, n - 1)
         IN  shorter \cup {Append(q, x) : q \in shorter, x \in S}

-----------------------------------------------------------------------------
(* MachOFile::mach_uuid.                                                   *)

\* The loop of mach_uuid written as the loop of entry is: errors end it.
RECURSIVE mach_uuid_loop_lenient(_, _, _)
mach_uuid_loop_lenient(d, e, it) ==
    LET n == MachOLoadCommandIterator_next(d, e, it)
    IN  IF ~IsSome(n.res) THEN OkNone
        ELSE LET u == uuid(n.res.val)
             IN  IF IsSome(u)
                 THEN OkSome(Content(d, [lo |-> u.val + 8, hi |-> u.val + 24]))
                 ELSE mach_uuid_loop_lenient(d, e, n.it)

\* The loop of mach_uuid over the commands left in the iterator.
RECURSIVE mach_uuid_loop(_, _, _)
mach_uuid_loop(d, e, it) ==
    LET n == MachOLoadCommandIterator_next(d, e, it)
    IN  IF IsErr(n.res) THEN n.res
        ELSE IF IsNone(n.res) THEN OkNone
        ELSE LET u == uuid(n.res.val)
             IN  IF IsErr(u) THEN u
                 ELSE IF IsSome(u)
                 THEN OkSome(Content(d, [lo |-> u.val + 8, hi |-> u.val + 24]))
                 ELSE mach_uuid_loop(d, e, n.it)

mach_uuid(d, f, m64) ==
    LET commands == load_commands(d, f.header, m64, f.endian, f.data)
    IN  IF IsErr(commands) THEN commands
        ELSE mach_uuid_loop(d, f.endian, commands.val)

\* The loop of entry over the commands left in the iterator: an error of
\* next ends it, an error of entry_point does not.
RECURSIVE entry_loop(_, _, _)
entry_loop(d, e, it) ==
    LET n == MachOLoadCommandIterator_next(d, e, it)
    IN  IF ~IsSome(n.res) THEN 0
        ELSE LET c == entry_point(n.res.val)
             IN  IF IsSome(c) THEN Val(get(d, c.val + 8, 8, e))
                 ELSE entry_loop(d, e, n.it)

\* MachOFile::entry
entry(d, f, m64) ==
    LET commands == load_commands(d, f.header, m64, f.endian, f.data)
    IN  IF IsSome(commands) THEN entry_loop(d, f.endian, commands.val) ELSE 0

\* MachOFile::segments: the iterator, empty when load_commands fails.
segments(d, f, m64) ==
    LET commands == load_commands(d, f.header, m64, f.endian, f.data)
    IN  IF IsSome(commands) THEN commands.val ELSE [data |-> EmptyBytes, ncmds |-> 0]

\* MachOSegmentIterator::next stopping at the first command that is no segment.
MachOSegmentIterator_next_no_loop(d, m64, e, it) ==
    LET n == MachOLoadCommandIterator_next(d, e, it)
    IN  IF ~IsSome(n.res) THEN [res |-> OkNone, it |-> n.it]
        ELSE LET seg == from_command(m64, n.res.val)
             IN  IF IsSome(seg) THEN [res |-> OkSome(seg.val.command), it |-> n.it]
                 ELSE [res |-> OkNone, it |-> n.it]

\* MachOSegmentIterator::next: [res, it], the segment command yielded (or
\* None) and the iterator after the call.
RECURSIVE MachOSegmentIterator_next(_, _, _, _)
MachOSegmentIterator_next(d, m64, e, it) ==
    LET n == MachOLoadCommandIterator_next(d, e, it)
    IN  IF ~IsSome(n.res) THEN [res |-> OkNone, it |-> n.it]
        ELSE LET seg == from_command(m64, n.res.val)
             IN  IF IsSome(seg) THEN [res |-> OkSome(seg.val.command), it |-> n.it]
                 ELSE MachOSegmentIterator_next(d, m64, e, n.it)

-----------------------------------------------------------------------------
(* The data and the names of a section.  A MachOSection is given by its    *)
(* internal descriptor.                                                    *)

\* Section::addr and Section::size
Section_addr(d, sec, m64, e) == get(d, sec + 32, WordSize(m64), e)
Section_size(d, sec, m64, e) == get(d, sec + 32 + WordSize(m64), WordSize(m64), e)

\* Section::offset, Section::reloff, Section::nreloc and Section::flags
Section_offset(d, sec, m64, e) == get32(d, sec + 32 + 2 * WordSize(m64), e)
Section_reloff(d, sec, m64, e) == get32(d, sec + 40 + 2 * WordSize(m64), e)
Section_nreloc(d, sec, m64, e) == get32(d, sec + 44 + 2 * WordSize(m64), e)
Section_flags(d, sec, m64, e) == get32(d, sec + 48 + 2 * WordSize(m64), e)

\* flags & SECTION_TYPE: the lowest byte of the word.
section_type(fl) == BitAnd(fl[4], SECTION_TYPE)

\* Section::file_range with S_GB_ZEROFILL left out of the match.
Section_file_range_two_types(d, sec, m64, e) ==
    IF section_type(Section_flags(d, sec, m64, e)) \in {S_ZEROFILL, S_THREAD_LOCAL_ZEROFILL}
    THEN OkNone
    ELSE OkSome([offset |-> Val(Section_offset(d, sec, m64, e)),
                 size |-> Val(Section_size(d, sec, m64, e))])

\* Section::file_range
Section_file_range(d, sec, m64, e) ==
    IF section_type(Section_flags(d, sec, m64, e))
          \in {S_ZEROFILL, S_GB_ZEROFILL, S_THREAD_LOCAL_ZEROFILL}
    THEN OkNone
    ELSE OkSome([offset |-> Val(Section_offset(d, sec, m64, e)),
                 size |-> Val(Section_size(d, sec, m64, e))])

\* Section::data: the view of the bytes, or Failed.
Section_data(d, sec, m64, e, v) ==
    LET r == Section_file_range(d, sec, m64, e)
    IN  IF IsSome(r) THEN read_bytes_at(v, r.val.offset, r.val.size)
        ELSE [ok |-> TRUE, val |-> EmptyBytes, rest |-> v]

\* MachOSection::bytes and MachOSection::data
MachOSection_data(d, f, m64, internal) ==
    LET r == Section_data(d, internal.section, m64, f.endian, f.data)
    IN  IF r.ok THEN OkSome(r.val) ELSE Err("Invalid Mach-O section size or offset")

\* MachOSection::file_range
MachOSection_file_range(d, f, m64, internal) ==
    Section_file_range(d, internal.section, m64, f.endian)

\* MachOSection::name
MachOSection_name(d, internal) ==
    IF from_utf8_ok(name(d, internal.section)) THEN OkSome(name(d, internal.section))
    ELSE Err("Non UTF-8 Mach-O section name")

\* str::starts_with
starts_with(str, prefix) ==
    Len(str) >= Len(prefix) /\ SubSeq(str, 1, Len(prefix)) = prefix

\* s[n..]
str_from(str, n) == SubSeq(str, n + 1, Len(str))

\* cmp_section_name comparing the whole names only.
cmp_section_name_plain(d, section_name, internal) ==
    LET nm == MachOSection_name(d, internal)
    IN  IsSome(nm) /\ section_name = nm.val

\* The closure cmp_section_name of section_by_name.
cmp_section_name(d, section_name, internal) ==
    LET nm == MachOSection_name(d, internal)
        system_section == starts_with(section_name, B_dot)
    IN  /\ IsSome(nm)
        /\ \/ section_name = nm.val
           \/ /\ system_section
              /\ starts_with(nm.val, B__)
              /\ str_from(section_name, 1) = str_from(nm.val, 2)

\* MachOFile::section_by_name: self.sections().find(cmp_section_name)
section_by_name(d, f, section_name) ==
    LET found == {k \in 1..Len(f.sections) : cmp_section_name(d, section_name, f.sections[k])}
    IN  IF found = {} THEN OkNone
        ELSE OkSome(f.sections[CHOOSE k \in found : \A j \in found : k <= j])

B_dot_debug_info == B_dot \o <<100, 101, 98, 117, 103, 95, 105, 110, 102, 111>>

\* MachOFile::has_debug_symbols
has_debug_symbols(d, f) == IsSome(section_by_name(d, f, B_dot_debug_info))

-----------------------------------------------------------------------------
(* The relocations of a section.  A relocation record is two 32-bit words, *)
(* r_word0 and r_word1; a slice of records is [off, n], the offset of its  *)
(* first record and its length.                                            *)

ARM_RELOC_VANILLA == 0
ARM64_RELOC_UNSIGNED == 0
GENERIC_RELOC_VANILLA == 0
X86_64_RELOC_UNSIGNED == 0
X86_64_RELOC_SIGNED == 1
X86_64_RELOC_BRANCH == 2
X86_64_RELOC_GOT_LOAD == 3
X86_64_RELOC_GOT == 4

\* Relocation::r_scattered: r_word0 & R_SCATTERED != 0, the highest bit of
\* the word, on every cputype but x86-64, which has no scattered form.
r_scattered(d, reloc, e, cpu) ==
    IF cpu = CPU_TYPE_X86_64 THEN FALSE ELSE get32(d, reloc, e)[1] >= 128

\* Relocation::info: the fields packed in r_word1, from its low bits up in
\* a little-endian file and from its high bits down in a big-endian one.
info(d, reloc, e) ==
    LET w0 == get32(d, reloc, e)
        w1 == get32(d, reloc + 4, e)
    IN  IF e = "little"
        THEN [r_address |-> w0,
              r_symbolnum |-> SmallVal(<<w1[2], w1[3], w1[4]>>),
              r_pcrel |-> w1[1] % 2 = 1,
              r_length |-> (w1[1] \div 2) % 4,
              r_extern |-> (w1[1] \div 8) % 2 = 1,
              r_type |-> w1[1] \div 16]
        ELSE [r_address |-> w0,
              r_symbolnum |-> SmallVal(<<w1[1], w1[2], w1[3]>>),
              r_pcrel |-> w1[4] \div 128 = 1,
              r_length |-> (w1[4] \div 32) % 4,
              r_extern |-> (w1[4] \div 16) % 2 = 1,
              r_type |-> w1[4] % 16]

\* Section::relocations
Section_relocations(d, sec, m64, e, v) ==
    LET r == read_slice_at(v, Val(Section_reloff(d, sec, m64, e)),
                           Val(Section_nreloc(d, sec, m64, e)), RelocationSize)
    IN  IF r.ok THEN OkSome(r.val) ELSE Err("Invalid Mach-O relocations offset or number")

\* MachOSection::relocations: the iterator over the array, or over nothing.
MachOSection_relocations(d, f, m64, internal) ==
    LET r == Section_relocations(d, internal.section, m64, f.endian, f.data)
    IN  IF IsSome(r) THEN r.val ELSE [off |-> 0, n |-> 0]

RelocationKindMachO(reloc) ==
    [tag |-> "MachO", value |-> reloc.r_type, relative |-> reloc.r_pcrel]

\* The match on cputype with the pcrel flag left out of the x86-64 arms.
relocation_kind_any_pcrel(cpu, reloc) ==
    LET generic(k) == [kind |-> k, encoding |-> "Generic"]
        absolute == [tag |-> "Absolute"]
    IN  IF cpu \in {CPU_TYPE_ARM, CPU_TYPE_ARM64, CPU_TYPE_X86}
        THEN IF reloc.r_type = 0 /\ ~reloc.r_pcrel THEN generic(absolute)
             ELSE generic(RelocationKindMachO(reloc))
        ELSE IF cpu = CPU_TYPE_X86_64
        THEN IF reloc.r_type = X86_64_RELOC_UNSIGNED THEN generic(absolute)
             ELSE IF reloc.r_type = X86_64_RELOC_SIGNED
             THEN [kind |-> [tag |-> "Relative"], encoding |-> "X86RipRelative"]
             ELSE IF reloc.r_type = X86_64_RELOC_BRANCH
             THEN [kind |-> [tag |-> "Relative"], encoding |-> "X86Branch"]
             ELSE IF reloc.r_type = X86_64_RELOC_GOT
             THEN generic([tag |-> "GotRelative"])
             ELSE IF reloc.r_type = X86_64_RELOC_GOT_LOAD
             THEN [kind |-> [tag |-> "GotRelative"], encoding |-> "X86RipRelativeMovq"]
             ELSE generic(RelocationKindMachO(reloc))
        ELSE generic(RelocationKindMachO(reloc))

\* The match on cputype of MachORelocationIterator::next: [kind, encoding].
relocation_kind(cpu, reloc) ==
    LET generic(k) == [kind |-> k, encoding |-> "Generic"]
        absolute == [tag |-> "Absolute"]
    IN  IF cpu = CPU_TYPE_ARM
        THEN IF reloc.r_type = ARM_RELOC_VANILLA /\ ~reloc.r_pcrel THEN generic(absolute)
             ELSE generic(RelocationKindMachO(reloc))
        ELSE IF cpu = CPU_TYPE_ARM64
        THEN IF reloc.r_type = ARM64_RELOC_UNSIGNED /\ ~reloc.r_pcrel THEN generic(absolute)
             ELSE generic(RelocationKindMachO(reloc))
        ELSE IF cpu = CPU_TYPE_X86
        THEN IF reloc.r_type = GENERIC_RELOC_VANILLA /\ ~reloc.r_pcrel THEN generic(absolute)
             ELSE generic(RelocationKindMachO(reloc))
        ELSE IF cpu = CPU_TYPE_X86_64
        THEN IF reloc.r_type = X86_64_RELOC_UNSIGNED /\ ~reloc.r_pcrel THEN generic(absolute)
             ELSE IF reloc.r_type = X86_64_RELOC_SIGNED /\ reloc.r_pcrel
             THEN [kind |-> [tag |-> "Relative"], encoding |-> "X86RipRelative"]
             ELSE IF reloc.r_type = X86_64_RELOC_BRANCH /\ reloc.r_pcrel
             THEN [kind |-> [tag |-> "Relative"], encoding |-> "X86Branch"]
             ELSE IF reloc.r_type = X86_64_RELOC_GOT /\ reloc.r_pcrel
             THEN generic([tag |-> "GotRelative"])
             ELSE IF reloc.r_type = X86_64_RELOC_GOT_LOAD /\ reloc.r_pcrel
             THEN [kind |-> [tag |-> "GotRelative"], encoding |-> "X86RipRelativeMovq"]
             ELSE generic(RelocationKindMachO(reloc))
        ELSE generic(RelocationKindMachO(reloc))

\* 8 << n
shl8(n) == IF n = 0 THEN 8 ELSE IF n = 1 THEN 16 ELSE IF n = 2 THEN 32 ELSE 64

\* The item MachORelocationIterator::next returns for a record.
relocation_item(cpu, reloc) ==
    [offset |-> reloc.r_address,
     kind |-> relocation_kind(cpu, reloc).kind,
     encoding |-> relocation_kind(cpu, reloc).encoding,
     size |-> shl8(reloc.r_length),
     target |-> IF reloc.r_extern THEN [tag |-> "Symbol", index |-> reloc.r_symbolnum]
                ELSE [tag |-> "Section", index |-> reloc.r_symbolnum],
     addend |-> IF reloc.r_pcrel THEN -4 ELSE 0,
     implicit_addend |-> TRUE]

\* MachORelocationIterator::next ending at the first scattered record.
MachORelocationIterator_next_scattered_ends(d, f, it) ==
    IF it.n = 0 THEN [res |-> OkNone, it |-> it]
    ELSE LET reloc == it.off
             rest == [off |-> it.off + RelocationSize, n |-> it.n - 1]
             cpu == cputype(d, f.header, f.endian)
         IN  IF r_scattered(d, reloc, f.endian, cpu)
             THEN [res |-> OkNone, it |-> rest]
             ELSE [res |-> OkSome(relocation_item(cpu, info(d, reloc, f.endian))),
                   it |-> rest]

\* MachORelocationIterator::next: [res, it], the item yielded (or None) and
\* the iterator after the call.
RECURSIVE MachORelocationIterator_next(_, _, _)
MachORelocationIterator_next(d, f, it) ==
    IF it.n = 0 THEN [res |-> OkNone, it |-> it]
    ELSE LET reloc == it.off
             rest == [off |-> it.off + RelocationSize, n |-> it.n - 1]
             cpu == cputype(d, f.header, f.endian)
         IN  IF r_scattered(d, reloc, f.endian, cpu)
             THEN MachORelocationIterator_next(d, f, rest)
             ELSE [res |-> OkSome(relocation_item(cpu, info(d, reloc, f.endian))),
                   it |-> rest]

-----------------------------------------------------------------------------
(* The accessors of the header.                                            *)

\* MachOFile::architecture
architecture(d, f) ==
    LET c == cputype(d, f.header, f.endian)
    IN  IF c = CPU_TYPE_ARM THEN "Arm"
        ELSE IF c = CPU_TYPE_ARM64 THEN "Aarch64"
        ELSE IF c = CPU_TYPE_X86 THEN "I386"
        ELSE IF c = CPU_TYPE_X86_64 THEN "X86_64"
        ELSE IF c = CPU_TYPE_MIPS THEN "Mips"
        ELSE "Unknown"

\* MachOFile::is_64: is_type_64 of the header type.
is_64(m64) == m64

-----------------------------------------------------------------------------
(* MachOFile::symbol_map.  A symbol of the map carries its address as a    *)
(* number.                                                                 *)

\* A u32 or u64 field as a u64: eight bytes, most significant first.
into_u64(w) == IF Len(w) = 8 THEN w ELSE <<0, 0, 0, 0>> \o w

\* The carry out of the bytes below byte i of a + b (byte 8 is the least
\* significant; i = 0 is the carry out of the whole sum).
RECURSIVE carry_into(_, _, _)
carry_into(a, b, i) ==
    IF i = 8 THEN 0 ELSE (a[i + 1] + b[i + 1] + carry_into(a, b, i + 1)) \div 256

\* a + b of two u64: the sum modulo 2^64 and whether it overflowed.
add_u64(a, b) ==
    [sum |-> [i \in 1..8 |-> (a[i] + b[i] + carry_into(a, b, i)) % 256],
     overflow |-> carry_into(a, b, 0) = 1]

\* section.address() + section.size()
section_end_sum(d, f, m64, internal) ==
    add_u64(into_u64(Section_addr(d, internal.section, m64, f.endian)),
            into_u64(Section_size(d, internal.section, m64, f.endian)))

\* The builds of the crate: with and without overflow checks.
Builds == {"debug", "release"}

\* self.symbols().map(|(_, s)| s).collect(), from position index on.
RECURSIVE collect_symbols(_, _, _, _)
collect_symbols(d, f, m64, index) ==
    LET n == MachOSymbolIterator_next(d, f, m64, index)
    IN  IF IsSome(n.res)
        THEN <<[n.res.val.symbol EXCEPT !.address = Val(@)]>>
                \o collect_symbols(d, f, m64, n.index)
        ELSE <<>>

\* The symbol pushed for the end of a section.
section_end(d, f, m64, internal) ==
    [name |-> [some |-> FALSE, val |-> <<>>],
     address |-> Val(section_end_sum(d, f, m64, internal).sum),
     size |-> 0,
     kind |-> "Section",
     section |-> SymbolSection("Undefined", NoIndex),
     weak |-> FALSE,
     scope |-> "Compilation",
     flags |-> <<>>]

\* The comparison of sort_by: by address, the ends of sections last.
sort_less(a, b) ==
    \/ a.address < b.address
    \/ a.address = b.address /\ a.kind # "Section" /\ b.kind = "Section"

\* x put into the sorted list after every entry that is not greater than it.
RECURSIVE sort_insert(_, _)
sort_insert(sorted, x) ==
    IF sorted = <<>> THEN <<x>>
    ELSE IF sort_less(x, sorted[Len(sorted)])
    THEN Append(sort_insert(SubSeq(sorted, 1, Len(sorted) - 1), x), sorted[Len(sorted)])
    ELSE Append(sorted, x)

\* sort_by left out.
sort_by_skipped(symbols) == symbols

\* symbols.sort_by(..): a stable sort.
RECURSIVE sort_by(_)
sort_by(symbols) ==
    IF symbols = <<>> THEN <<>>
    ELSE sort_insert(sort_by(SubSeq(symbols, 1, Len(symbols) - 1)), symbols[Len(symbols)])

\* symbol_size with the first later entry taken whatever its address.
symbol_size_adjacent(symbols, i) ==
    IF symbols[i].kind # "Section" /\ i < Len(symbols)
    THEN symbols[i + 1].address - symbols[i].address
    ELSE symbols[i].size

\* The size the loop gives the symbol at position i: from the first later
\* entry past those skip_while passes, when there is one.
symbol_size(symbols, i) ==
    LET rest == {j \in (i + 1)..Len(symbols) :
                    ~(symbols[j].kind # "Section" /\ symbols[j].address = symbols[i].address)}
    IN  IF symbols[i].kind # "Section" /\ rest # {}
        THEN symbols[CHOOSE j \in rest : \A k \in rest : j <= k].address - symbols[i].address
        ELSE symbols[i].size

\* SymbolMap::filter
SymbolMap_filter(symbol) ==
    /\ symbol.kind \in {"Unknown", "Text", "Data"}
    /\ symbol.section.tag # "Undefined"
    /\ symbol.section.tag # "Common"
    /\ symbol.size > 0

\* symbol_map up to the loop that sets the sizes: the list retain is applied to.
symbol_map_sized(d, f, m64) ==
    LET pushed == collect_symbols(d, f, m64, 0)
                    \o [k \in 1..Len(f.sections) |-> section_end(d, f, m64, f.sections[k])]
        sorted == sort_by(pushed)
    IN  [i \in 1..Len(sorted) |-> [sorted[i] EXCEPT !.size = symbol_size(sorted, i)]]

\* MachOFile::symbol_map
symbol_map(d, f, m64) == SelectSeq(symbol_map_sized(d, f, m64), SymbolMap_filter)

-----------------------------------------------------------------------------
(* The callers of a parsed file.  A caller runs one operation: it walks    *)
(* one iterator to its end, or makes one call.                             *)

\* The largest section or symbol index a caller asks for.
MaxIndex == 7

Idle == pc = "parsed" /\ op = "none"

\* MachOFile::sections
Sections ==
    /\ Idle
    /\ op' = "sections" /\ cur' = 0 /\ out' = <<>> /\ ret' = NotCalled
    /\ UNCHANGED <<is64, data, pc, st, file, err>>

\* MachOSectionIterator::next
SectionsNext ==
    /\ op = "sections"
    /\ IF cur < Len(file.sections)
       THEN /\ ret' = OkSome(file.sections[cur + 1])
            /\ out' = Append(out, file.sections[cur + 1])
            /\ cur' = cur + 1
       ELSE ret' = OkNone /\ UNCHANGED <<cur, out>>
    /\ UNCHANGED <<is64, data, pc, st, file, err, op>>

SectionByIndex ==
    /\ Idle
    /\ \E i \in 0..MaxIndex :
          /\ op' = "section_by_index" /\ cur' = i
          /\ ret' = section_by_index(file, i)
    /\ UNCHANGED <<is64, data, pc, st, file, err, out>>

\* MachOFile::symbols
Symbols ==
    /\ Idle
    /\ op' = "symbols" /\ cur' = 0 /\ out' = <<>> /\ ret' = NotCalled
    /\ UNCHANGED <<is64, data, pc, st, file, err>>

SymbolsNext ==
    /\ op = "symbols"
    /\ LET n == MachOSymbolIterator_next(data, file, is64, cur)
       IN  /\ ret' = n.res
           /\ cur' = n.index
           /\ out' = IF IsSome(n.res) THEN Append(out, n.res.val) ELSE out
    /\ UNCHANGED <<is64, data, pc, st, file, err, op>>

SymbolByIndex ==
    /\ Idle
    /\ \E i \in 0..MaxIndex :
          /\ op' = "symbol_by_index" /\ cur' = i
          /\ ret' = symbol_by_index(data, file, is64, i)
    /\ UNCHANGED <<is64, data, pc, st, file, err, out>>

\* MachHeader::load_commands on the file's header
LoadCommands ==
    /\ Idle
    /\ LET c == load_commands(data, file.header, is64, file.endian, file.data)
       IN  /\ op' = IF IsSome(c) THEN "load_commands" ELSE "load_commands_failed"
           /\ cur' = IF IsSome(c) THEN c.val ELSE NoLocals.commands
           /\ ret' = IF IsSome(c) THEN NotCalled ELSE c
    /\ out' = <<>>
    /\ UNCHANGED <<is64, data, pc, st, file, err>>

\* MachOLoadCommandIterator::next, which a caller may call again after an
\* error or the end.
CommandsNext ==
    /\ op = "load_commands"
    /\ LET n == MachOLoadCommandIterator_next(data, file.endian, cur)
       IN  /\ ret' = n.res
           /\ cur' = n.it
           /\ out' = IF IsSome(n.res) THEN Append(out, n.res.val) ELSE out
    /\ UNCHANGED <<is64, data, pc, st, file, err, op>>

CastKinds == {"segment_32", "segment_64", "symtab", "uuid", "entry_point"}

Cast(kind, c) ==
    CASE kind = "segment_32" -> segment_32(c)
      [] kind = "segment_64" -> segment_64(c)
      [] kind = "symtab" -> symtab(c)
      [] kind = "uuid" -> uuid(c)
      [] kind = "entry_point" -> entry_point(c)

\* A typed cast of the command the iterator has just yielded.
CastCommand ==
    /\ op = "load_commands" /\ IsSome(ret)
    /\ \E kind \in CastKinds :
          /\ op' = "cast" /\ cur' = [kind |-> kind, command |-> ret.val]
          /\ ret' = Cast(kind, ret.val)
    /\ UNCHANGED <<is64, data, pc, st, file, err, out>>

MachUuid ==
    /\ Idle
    /\ op' = "mach_uuid" /\ ret' = mach_uuid(data, file, is64)
    /\ UNCHANGED <<is64, data, pc, st, file, err, cur, out>>

\* MachOFile::entry
Entry ==
    /\ Idle
    /\ op' = "entry" /\ ret' = entry(data, file, is64)
    /\ UNCHANGED <<is64, data, pc, st, file, err, cur, out>>

\* MachOFile::segments
Segments ==
    /\ Idle
    /\ op' = "segments" /\ cur' = segments(data, file, is64)
    /\ out' = <<>> /\ ret' = NotCalled
    /\ UNCHANGED <<is64, data, pc, st, file, err>>

\* MachOSegmentIterator::next
SegmentsNext ==
    /\ op = "segments"
    /\ LET n == MachOSegmentIterator_next(data, is64, file.endian, cur)
       IN  /\ ret' = n.res
           /\ cur' = n.it
           /\ out' = IF IsSome(n.res) THEN Append(out, n.res.val) ELSE out
    /\ UNCHANGED <<is64, data, pc, st, file, err, op>>

\* MachOFile::dynamic_symbols
DynamicSymbols ==
    /\ Idle
    /\ op' = "dynamic_symbols" /\ cur' = 0 /\ out' = <<>> /\ ret' = NotCalled
    /\ UNCHANGED <<is64, data, pc, st, file, err>>

\* MachOSymbolIterator::next on the iterator of dynamic_symbols
DynamicSymbolsNext ==
    /\ op = "dynamic_symbols"
    /\ LET n == MachOSymbolIterator_next(data, file, is64, cur)
       IN  /\ ret' = n.res
           /\ cur' = n.index
           /\ out' = IF IsSome(n.res) THEN Append(out, n.res.val) ELSE out
    /\ UNCHANGED <<is64, data, pc, st, file, err, op>>

\* MachOFile::symbol_map; out keeps the list as it is before retain.  The
\* sum of a section's address and size that does not fit in a u64 panics in
\* a build with overflow checks and wraps around in one without.
SymbolMap ==
    /\ Idle
    /\ \E build \in Builds :
          IF /\ build = "debug"
             /\ \E k \in 1..Len(file.sections) :
                   section_end_sum(data, file, is64, file.sections[k]).overflow
          THEN op' = "symbol_map_panic" /\ out' = <<>> /\ ret' = <<>>
          ELSE /\ op' = "symbol_map"
               /\ out' = symbol_map_sized(data, file, is64)
               /\ ret' = symbol_map(data, file, is64)
    /\ UNCHANGED <<is64, data, pc, st, file, err, cur>>

\* MachOSection::file_range and MachOSection::data of the section a caller
\* has got from sections() or section_by_index.
SectionData ==
    /\ Idle
    /\ \E i \in 1..Len(file.sections) :
          /\ op' = "section_data" /\ cur' = i
          /\ out' = MachOSection_file_range(data, file, is64, file.sections[i])
          /\ ret' = MachOSection_data(data, file, is64, file.sections[i])
    /\ UNCHANGED <<is64, data, pc, st, file, err>>

\* The names callers look sections up by.
SectionNames ==
    {B__text, B_dot \o Btext, Btext, B_dot_debug_info, B__debug_info, B_dot, B__,
     B_dot \o B__text}

\* MachOFile::section_by_name
SectionByName ==
    /\ Idle
    /\ \E n \in SectionNames :
          /\ op' = "section_by_name" /\ cur' = n
          /\ ret' = section_by_name(data, file, n)
    /\ UNCHANGED <<is64, data, pc, st, file, err, out>>

\* MachOSection::relocations of the section a caller has got from sections()
\* or section_by_index; cur is the section and the iterator.
Relocations ==
    /\ Idle
    /\ \E i \in 1..Len(file.sections) :
          cur' = [section |-> i,
                  it |-> MachOSection_relocations(data, file, is64, file.sections[i])]
    /\ op' = "relocations" /\ out' = <<>> /\ ret' = NotCalled
    /\ UNCHANGED <<is64, data, pc, st, file, err>>

\* MachORelocationIterator::next
RelocationsNext ==
    /\ op = "relocations"
    /\ LET n == MachORelocationIterator_next(data, file, cur.it)
       IN  /\ ret' = n.res
           /\ cur' = [cur EXCEPT !.it = n.it]
           /\ out' = IF IsSome(n.res) THEN Append(out, n.res.val) ELSE out
    /\ UNCHANGED <<is64, data, pc, st, file, err, op>>

-----------------------------------------------------------------------------
(* A caller that holds several iterators over one file at once and calls   *)
(* accessors between their steps.  cur holds the cursors, each the state   *)
(* of one iterator object; out holds what each has yielded; ret is the     *)
(* last accessor call.                                                     *)

\* segments(), sections(), symbols() and relocations() of the section s:
\* the four iterators, each borrowing the file.
share_open(d, f, m64, s) ==
    [segments |-> segments(d, f, m64),
     sections |-> 0,
     symbols |-> 0,
     relocations |-> IF s = 0 THEN [off |-> 0, n |-> 0]
                     ELSE MachOSection_relocations(d, f, m64, f.sections[s])]

NothingYielded ==
    [segments |-> <<>>, sections |-> <<>>, symbols |-> <<>>, relocations |-> <<>>]

\* MachOSegmentIterator::next on the caller's iterator: [cur, out].
shared_segments_next(d, f, m64, c, o) ==
    LET n == MachOSegmentIterator_next(d, m64, f.endian, c.segments)
    IN  [cur |-> [c EXCEPT !.segments = n.it],
         out |-> [o EXCEPT !.segments = IF IsSome(n.res) THEN Append(@, n.res.val) ELSE @]]

\* MachOSectionIterator::next on the caller's iterator: [cur, out].
shared_sections_next(d, f, m64, c, o) ==
    IF c.sections < Len(f.sections)
    THEN [cur |-> [c EXCEPT !.sections = @ + 1],
          out |-> [o EXCEPT !.sections = Append(@, f.sections[c.sections + 1])]]
    ELSE [cur |-> c, out |-> o]

\* MachOSymbolIterator::next moving the position of the section iterator
\* along with its own.
shared_symbols_next_one_index(d, f, m64, c, o) ==
    LET n == MachOSymbolIterator_next(d, f, m64, c.symbols)
    IN  [cur |-> [c EXCEPT !.symbols = n.index, !.sections = n.index],
         out |-> [o EXCEPT !.symbols = IF IsSome(n.res) THEN Append(@, n.res.val) ELSE @]]

\* MachOSymbolIterator::next on the caller's iterator: [cur, out].
shared_symbols_next(d, f, m64, c, o) ==
    LET n == MachOSymbolIterator_next(d, f, m64, c.symbols)
    IN  [cur |-> [c EXCEPT !.symbols = n.index],
         out |-> [o EXCEPT !.symbols = IF IsSome(n.res) THEN Append(@, n.res.val) ELSE @]]

\* MachORelocationIterator::next on the caller's iterator: [cur, out].
shared_relocations_next(d, f, m64, c, o) ==
    LET n == MachORelocationIterator_next(d, f, c.relocations)
    IN  [cur |-> [c EXCEPT !.relocations = n.it],
         out |-> [o EXCEPT !.relocations = IF IsSome(n.res) THEN Append(@, n.res.val) ELSE @]]

Accessors ==
    {"architecture", "is_64", "is_little_endian", "entry", "mach_uuid", "flags",
     "section_by_index", "symbol_map"}

\* The value the accessor a returns on the file; arg is the index given to
\* section_by_index.  The sections of the files of these callers end below
\* 2^64, so that symbol_map returns in every build.
accessor_value(d, f, m64, a, arg) ==
    CASE a = "architecture" -> architecture(d, f)
      [] a = "is_64" -> is_64(m64)
      [] a = "is_little_endian" -> is_little_endian(d, f.header, m64)
      [] a = "entry" -> entry(d, f, m64)
      [] a = "mach_uuid" -> mach_uuid(d, f, m64)
      [] a = "flags" -> flags(d, f.header, f.endian)
      [] a = "section_by_index" -> section_by_index(f, arg)
      [] a = "symbol_map" -> symbol_map(d, f, m64)

\* The caller takes the four iterators.
Share ==
    /\ Idle
    /\ \E s \in 0..Len(file.sections) :
          /\ (s = 0) = (file.sections = <<>>)
          /\ cur' = share_open(data, file, is64, s)
    /\ op' = "shared" /\ out' = NothingYielded
    /\ ret' = [acc |-> "none", arg |-> 0, val |-> NotCalled]
    /\ UNCHANGED <<is64, data, pc, st, file, err>>

SharedSegmentsNext ==
    /\ op = "shared"
    /\ LET n == shared_segments_next(data, file, is64, cur, out)
       IN  cur' = n.cur /\ out' = n.out
    /\ UNCHANGED <<is64, data, pc, st, file, err, op, ret>>

SharedSectionsNext ==
    /\ op = "shared"
    /\ LET n == shared_sections_next(data, file, is64, cur, out)
       IN  cur' = n.cur /\ out' = n.out
    /\ UNCHANGED <<is64, data, pc, st, file, err, op, ret>>

SharedSymbolsNext ==
    /\ op = "shared"
    /\ LET n == shared_symbols_next(data, file, is64, cur, out)
       IN  cur' = n.cur /\ out' = n.out
    /\ UNCHANGED <<is64, data, pc, st, file, err, op, ret>>

SharedRelocationsNext ==
    /\ op = "shared"
    /\ LET n == shared_relocations_next(data, file, is64, cur, out)
       IN  cur' = n.cur /\ out' = n.out
    /\ UNCHANGED <<is64, data, pc, st, file, err, op, ret>>

\* A call of an accessor between the steps of the iterators.
SharedCall ==
    /\ op = "shared"
    /\ \E a \in Accessors :
          \E arg \in (IF a = "section_by_index" THEN {0, 1, MaxIndex} ELSE {0}) :
              ret' = [acc |-> a, arg |-> arg,
                      val |-> accessor_value(data, file, is64, a, arg)]
    /\ UNCHANGED <<is64, data, pc, st, file, err, op, cur, out>>

\* MachOFile::has_debug_symbols
HasDebugSymbols ==
    /\ Idle
    /\ op' = "has_debug_symbols" /\ ret' = has_debug_symbols(data, file)
    /\ UNCHANGED <<is64, data, pc, st, file, err, cur, out>>

-----------------------------------------------------------------------------
(* The specifications.                                                     *)

Combos == [w64 : BOOLEAN, e : {"big", "little"}]
Magics == {MH_MAGIC, MH_CIGAM, MH_MAGIC_64, MH_CIGAM_64, FAT_MAGIC, <<0, 0, 0, 0>>}
EndianOfMagic(mag) == IF mag \in {MH_CIGAM, MH_CIGAM_64} THEN "little" ELSE "big"

\* Images read at either width, with every magic, whole and cut short.
HeaderInputs ==
    {[is64 |-> m64,
      data |-> Image(m64, EndianOfMagic(mag), mag, <<"seg_text", "symtab_a", "uuid_a">>, cut)] :
        m64 \in BOOLEAN, mag \in Magics,
        cut \in {-1, 0, 3, 4, 27, 28, 31, 32, 40}}

\* Well-identified images of every stream of at most MaxCmds templates of T.
StreamInputs(T) ==
    {[is64 |-> c.w64, data |-> Image(c.w64, c.e, MagicOf(c.w64, c.e), ts, -1)] :
        c \in Combos, ts \in SeqsUpTo(T, MaxCmds)}

FileTemplates ==
    {"seg_text", "seg_data2", "seg_other", "seg_nsects_bad", "symtab_a", "symtab_b",
     "symtab_badsym", "symtab_badstr", "other", "over", "trunc"}

CommandTemplates ==
    {"uuid_a", "uuid_b", "uuid_short", "seg_empty", "seg_other", "seg_short",
     "seg_other_short",
     "symtab_a", "symtab_short", "main", "main_short", "other", "zero", "tiny",
     "over", "trunc"}

InitWith(inputs) ==
    /\ \E i \in inputs : is64 = i.is64 /\ data = i.data
    /\ pc = "start" /\ st = NoLocals /\ file = NoFile /\ err = ""
    /\ op = "none" /\ cur = 0 /\ out = <<>> /\ ret = NotCalled

\* Parsing, then sections and symbols.
Init == InitWith(HeaderInputs \cup StreamInputs(FileTemplates))

Next ==
    \/ ParseBegin
    \/ ParseStep
    \/ Sections
    \/ SectionsNext
    \/ SectionByIndex
    \/ Symbols
    \/ SymbolsNext
    \/ SymbolByIndex

Spec == Init /\ [][Next]_vars

\* Parsing, then the load commands.
InitCmd == InitWith(HeaderInputs \cup StreamInputs(CommandTemplates))

NextCmd ==
    \/ ParseBegin
    \/ ParseStep
    \/ LoadCommands
    \/ CommandsNext
    \/ CastCommand
    \/ MachUuid

SpecCmd == InitCmd /\ [][NextCmd]_vars

SegmentTemplates ==
    {"seg_text", "seg_empty", "seg_other", "seg_other_short", "main", "main_b",
     "main_short", "other", "over", "zero"}

\* Parsing, then entry and the segments.
InitSeg == InitWith(HeaderInputs \cup StreamInputs(SegmentTemplates))

NextSeg ==
    \/ ParseBegin
    \/ ParseStep
    \/ Entry
    \/ Segments
    \/ SegmentsNext

SpecSeg == InitSeg /\ [][NextSeg]_vars

MapTemplates ==
    {"seg_text", "seg_data2", "seg_tls", "symtab_a", "symtab_b", "symtab_c", "other"}

\* Parsing, then the symbols and the symbol map.
InitMap == InitWith(HeaderInputs \cup StreamInputs(MapTemplates))

NextMap ==
    \/ ParseBegin
    \/ ParseStep
    \/ Symbols
    \/ SymbolsNext
    \/ DynamicSymbols
    \/ DynamicSymbolsNext
    \/ SymbolByIndex
    \/ SymbolMap

SpecMap == InitMap /\ [][NextMap]_vars

SectionTemplates ==
    {"sec_file", "sec_zero", "sec_names", "seg_text", "seg_data2", "other"}

\* Parsing, then the data and the names of the sections.
InitSec == InitWith(HeaderInputs \cup StreamInputs(SectionTemplates))

NextSec ==
    \/ ParseBegin
    \/ ParseStep
    \/ SectionData
    \/ SectionByName
    \/ HasDebugSymbols

SpecSec == InitSec /\ [][NextSec]_vars

\* The command streams of the files whose iterators are held at once.
ShareStreams ==
    {<<"sec_rel", "symtab_b", "uuid_a", "main">>,
     <<"seg_text", "sec_rel">>,
     <<"main", "other">>}

\* Parsing, then several iterators and accessors interleaved.
InitShare ==
    InitWith({[is64 |-> c.w64, data |-> Image(c.w64, c.e, MagicOf(c.w64, c.e), ts, -1)] :
                c \in Combos, ts \in ShareStreams})

NextShare ==
    \/ ParseBegin
    \/ ParseStep
    \/ Share
    \/ SharedSegmentsNext
    \/ SharedSectionsNext
    \/ SharedSymbolsNext
    \/ SharedRelocationsNext
    \/ SharedCall

SpecShare == InitShare /\ [][NextShare]_vars

\* The command streams of the files whose header names any number of
\* commands: with commands of cmdsize 0 and 4, and a command that overruns
\* the table.
TermStreams ==
    {<<>>, <<"zero">>, <<"zero", "uuid_a">>, <<"tiny", "main">>,
     <<"uuid_a", "zero", "main">>, <<"seg_empty", "main">>, <<"over">>,
     <<"uuid_a", "seg_empty">>}

\* Parsing, then the load commands, the segments, entry and mach_uuid, the
\* caller calling next again until the iterator ends or fails.
InitTerm ==
    InitWith({[is64 |-> c.w64, data |-> ImageN(c.w64, c.e, ts, nc)] :
                c \in Combos, ts \in TermStreams, nc \in 0..(MaxCmds + 1)})

NextTerm ==
    \/ ParseBegin
    \/ ParseStep
    \/ LoadCommands
    \/ CommandsNext
    \/ Segments
    \/ SegmentsNext
    \/ Entry
    \/ MachUuid

SpecTerm == InitTerm /\ [][NextTerm]_vars

LayoutTemplates ==
    {"seg_text", "seg_data2", "seg_empty", "seg_other", "seg_other_short",
     "seg_nsects_bad", "symtab_a", "other", "over"}

\* Parsing, then the segments.
InitLay == InitWith(StreamInputs(LayoutTemplates))

NextLay ==
    \/ ParseBegin
    \/ ParseStep
    \/ Segments
    \/ SegmentsNext

SpecLay == InitLay /\ [][NextLay]_vars

OverflowTemplates == {"seg_wrap", "seg_text", "symtab_a", "symtab_c", "other"}

\* Parsing, then the symbol map, of files with sections at the top of the
\* address space.
InitOvf == InitWith(StreamInputs(OverflowTemplates))

NextOvf ==
    \/ ParseBegin
    \/ ParseStep
    \/ SymbolMap

SpecOvf == InitOvf /\ [][NextOvf]_vars

MaxRelocs == 2

\* Images of every cputype with one record of RelocEntries, or with at most
\* MaxRelocs records of OrderEntries in every order.
RelocInputs ==
    {[is64 |-> c.w64, data |-> RelocImage(c.w64, c.e, cpu, rs)] :
        c \in Combos, cpu \in CpuTypes,
        rs \in {<<r>> : r \in RelocEntries} \cup SeqsUpTo(OrderEntries, MaxRelocs)}

\* Parsing, then the relocations of the sections.
InitRel == InitWith(RelocInputs)

NextRel ==
    \/ ParseBegin
    \/ ParseStep
    \/ Relocations
    \/ RelocationsNext

SpecRel == InitRel /\ [][NextRel]_vars

-----------------------------------------------------------------------------
(* What the file's bytes say, read off the load commands independently of  *)
(* the state parse has built.                                              *)

\* The commands an iterator yields until it ends or fails, and how it ends.
RECURSIVE Walk(_, _, _)
Walk(d, e, it) ==
    LET n == MachOLoadCommandIterator_next(d, e, it)
    IN  IF IsSome(n.res)
        THEN LET w == Walk(d, e, n.it)
             IN  [frames |-> <<n.res.val>> \o w.frames, end |-> w.end]
        ELSE [frames |-> <<>>, end |-> n.res]

\* The walk over the load commands of a parsed file.
FileWalk ==
    LET c == load_commands(data, file.header, is64, file.endian, file.data)
    IN  IF IsSome(c) THEN Walk(data, file.endian, c.val)
        ELSE [frames |-> <<>>, end |-> c]

\* The offsets of the section records of the segment commands of the file's
\* width, in stream order.
RECURSIVE RecordsOf(_)
RecordsOf(frames) ==
    IF frames = <<>> THEN <<>>
    ELSE LET c == Head(frames)
             own == c.cmd = (IF is64 THEN LC_SEGMENT_64 ELSE LC_SEGMENT)
             n == IF own
                  THEN Val(get32(data, c.data.lo + (IF is64 THEN 64 ELSE 48), file.endian))
                  ELSE 0
         IN  [j \in 1..n |-> c.data.lo + SegmentSize(is64) + (j - 1) * SectionSize(is64)]
                \o RecordsOf(Tail(frames))

\* The positions of the LC_SYMTAB frames.
SymtabFrames(frames) == {k \in 1..Len(frames) : frames[k].cmd = LC_SYMTAB}

Min(S) == CHOOSE x \in S : \A y \in S : x <= y

\* The symbol at position i of the file's symbol array is an N_STAB entry.
IsStab(i) == BitAnd(n_type(data, NlistAt(is64, file.symbols.symbols, i)), N_STAB) # 0

-----------------------------------------------------------------------------
(* Sections and symbols of a parsed file.                                  *)

\* C1: section indices are 1-based and dense, in the order the section
\* records appear across the segment commands of the file's width; the k-th
\* section enumerated has index k, and section_by_index(i) succeeds exactly
\* when 1 <= i <= the number of sections, and then returns the section with
\* index i, the record and the kind the enumeration gives; otherwise it is
\* an error.
C1_SectionIndices ==
    LET records == RecordsOf(FileWalk.frames)
    IN  /\ pc = "parsed" => Len(file.sections) = Len(records)
        /\ op = "sections" =>
              /\ \A k \in 1..Len(out) :
                    /\ out[k].index = k
                    /\ out[k].section = records[k]
                    /\ out[k] = file.sections[k]
              /\ IsNone(ret) => Len(out) = Len(records)
        /\ op = "section_by_index" =>
              IF 1 <= cur /\ cur <= Len(records)
              THEN /\ IsSome(ret)
                   /\ ret.val.index = cur
                   /\ ret.val.section = records[cur]
                   /\ ret.val = file.sections[cur]
              ELSE IsErr(ret)

C1_Witness ==
    /\ op = "section_by_index" /\ cur = 3 /\ IsSome(ret)
    /\ ret.val.kind = "Debug"

\* C2: symbols() yields exactly the entries of the symbol array that are not
\* N_STAB, in increasing position, each with the position it has in the
\* array, so a skipped entry leaves a gap in the indices; None comes only
\* once every position has been passed.
C2_SymbolsSkipStab ==
    op = "symbols" =>
        /\ \A k \in 1..Len(out) :
              /\ out[k].index < cur
              /\ ~IsStab(out[k].index)
              /\ \A j \in 1..Len(out) : j < k => out[j].index < out[k].index
        /\ \A i \in 0..(cur - 1) :
              ~IsStab(i) => \E k \in 1..Len(out) : out[k].index = i
        /\ IsNone(ret) => cur >= file.symbols.symbols.n
        /\ cur <= file.symbols.symbols.n

C2_Witness ==
    /\ op = "symbols" /\ IsNone(ret) /\ Len(out) = 4
    /\ out[1].index = 0 /\ out[2].index = 2 /\ out[4].index = 5

\* The symbols a session has in hand: those symbols() has yielded, or the
\* one symbol_by_index has returned.
Emitted ==
    IF op = "symbols" THEN {out[k] : k \in 1..Len(out)}
    ELSE IF op = "symbol_by_index" /\ IsSome(ret) THEN {[index |-> cur, symbol |-> ret.val]}
    ELSE {}

\* C3 as the specification states it: a symbol whose section is Section(i)
\* has 1 <= i <= the number of sections of the file.
C3_SectionInRange ==
    \A s \in Emitted :
        s.symbol.section.tag = "Section" =>
            1 <= s.symbol.section.index /\ s.symbol.section.index <= Len(file.sections)

\* C3: a symbol's section is Section(i) exactly when its type is N_SECT and
\* i = n_sect is not 0, whatever the number of sections of the file; an
\* n_sect past the last section keeps Section(n_sect) and only the kind
\* degrades to Unknown.
C3_SectionFromNSect ==
    \A s \in Emitted :
        LET nl == NlistAt(is64, file.symbols.symbols, s.index)
            sect == BitAnd(n_type(data, nl), N_TYPE) = N_SECT /\ n_sect(data, nl) # 0
        IN  /\ sect <=> s.symbol.section.tag = "Section"
            /\ sect => s.symbol.section.index = n_sect(data, nl)
            /\ (sect /\ n_sect(data, nl) > Len(file.sections)) =>
                  s.symbol.kind = "Unknown"
            /\ s.symbol.section.tag = "Section" => s.symbol.section.index >= 1

C3_Witness ==
    \E s \in Emitted :
        /\ s.symbol.section.tag = "Section"
        /\ s.symbol.section.index > Len(file.sections)
        /\ s.symbol.kind = "Unknown"

\* C4 as the specification states it: of several LC_SYMTAB commands the
\* first gives the file its symbol table and its string table.
C4_FirstSymtabWins ==
    pc = "parsed" =>
        LET frames == FileWalk.frames
            ks == SymtabFrames(frames)
        IN  Cardinality(ks) > 1 =>
                LET c == frames[Min(ks)].data.lo
                    symoff == Val(get32(data, c + 8, file.endian))
                    nsyms == Val(get32(data, c + 12, file.endian))
                    stroff == Val(get32(data, c + 16, file.endian))
                    strsize == Val(get32(data, c + 20, file.endian))
                IN  /\ file.symbols.symbols = [off |-> symoff, n |-> nsyms]
                    /\ file.symbols.strings = [lo |-> stroff, hi |-> stroff + strsize]

\* C5 as the specification states it: parse gives a file only when the load
\* command table and every frame in it could be read; a frame whose header
\* cannot be read or whose cmdsize overruns the table makes parse fail.
C5_BadFrameFailsParse ==
    pc = "parsed" =>
        /\ IsSome(load_commands(data, file.header, is64, file.endian, file.data))
        /\ IsNone(FileWalk.end)

-----------------------------------------------------------------------------
(* The header.                                                             *)

\* The magics of a width: big-endian first.
MagicsOfWidth(m64) == IF m64 THEN <<MH_MAGIC_64, MH_CIGAM_64>> ELSE <<MH_MAGIC, MH_CIGAM>>

\* C6: parse gets past the identification of the header exactly when the
\* buffer holds a full header of the chosen width whose first four bytes,
\* read big-endian, are one of the two magics of that width; a full header
\* with any other magic fails with "Unsupported Mach-O header"; and in a
\* file that parsed, is_little_endian holds exactly for the CIGAM magic and
\* exactly one of is_big_endian and is_little_endian holds.
C6_HeaderIdentification ==
    pc # "start" =>
        LET full == Len(data) >= HeaderSize(is64)
            m == SubSeq(data, 1, 4)
            ms == MagicsOfWidth(is64)
            past == \/ pc \in {"loop", "parsed"}
                    \/ /\ pc = "failed"
                       /\ err \notin {"Invalid Mach-O header size or alignment",
                                      "Unsupported Mach-O header"}
        IN  /\ past <=> (full /\ m \in {ms[1], ms[2]})
            /\ ~full => (pc = "failed" /\ err = "Invalid Mach-O header size or alignment")
            /\ (full /\ m \notin {ms[1], ms[2]}) =>
                  (pc = "failed" /\ err = "Unsupported Mach-O header")
            /\ pc = "parsed" =>
                  /\ is_little_endian(data, file.header, is64) <=> m = ms[2]
                  /\ is_little_endian(data, file.header, is64)
                        # is_big_endian(data, file.header, is64)
                  /\ file.endian = (IF m = ms[2] THEN "little" ELSE "big")

C6_Witness ==
    /\ pc = "failed" /\ err = "Unsupported Mach-O header"
    /\ Len(data) >= HeaderSize(is64)
    /\ SubSeq(data, 1, 4) \in {FAT_MAGIC, MagicsOfWidth(~is64)[1]}

-----------------------------------------------------------------------------
(* The load commands.                                                      *)

\* C7 as the specification states it: a step of the iterator that yields a
\* command yields the first cmdsize bytes of the remaining view, the 8-byte
\* header among them, moves the remaining view cmdsize bytes on and counts
\* one command fewer; a cmdsize under the size of the header neither comes
\* out as a view nor leaves the cursor on the same header.
C7_StepSpansCommand ==
    [][(op = "load_commands" /\ op' = "load_commands" /\ IsSome(ret') /\ cur.ncmds > 0) =>
            LET cmdsize == Val(get32(data, cur.data.lo + 4, file.endian))
            IN  /\ cmdsize >= LoadCommandSize
                /\ ret'.val.data = [lo |-> cur.data.lo, hi |-> cur.data.lo + cmdsize]
                /\ BLen(ret'.val.data) >= LoadCommandSize
                /\ cur'.data = [lo |-> cur.data.lo + cmdsize, hi |-> cur.data.hi]
                /\ cur'.data.lo > cur.data.lo
                /\ cur'.ncmds = cur.ncmds - 1]_vars

\* The frame at the cursor cannot be read: commands remain, and fewer than
\* 8 bytes remain for the header or cmdsize is more than the bytes that remain.
FrameBad ==
    /\ cur.ncmds > 0
    /\ \/ BLen(cur.data) < 8
       \/ Val(get32(data, cur.data.lo + 4, file.endian)) > BLen(cur.data)

\* C8: when commands remain and the frame at the cursor cannot be read, next
\* returns an error and does not decrement the count; and once next has
\* returned an error, every later call returns an error and yields no
\* further command.
C8_ErrorEndsIteration ==
    [][(op = "load_commands" /\ op' = "load_commands") =>
            /\ FrameBad => (IsErr(ret') /\ cur'.ncmds = cur.ncmds /\ out' = out)
            /\ IsErr(ret) => (IsErr(ret') /\ cur'.ncmds = cur.ncmds /\ out' = out)]_vars

C8_Witness ==
    /\ op = "load_commands" /\ IsErr(ret) /\ cur.ncmds > 0 /\ Len(out) >= 1
    /\ FrameBad

\* The command id and the size of the body of a cast.
CastId(kind) ==
    CASE kind = "segment_32" -> LC_SEGMENT
      [] kind = "segment_64" -> LC_SEGMENT_64
      [] kind = "symtab" -> LC_SYMTAB
      [] kind = "uuid" -> LC_UUID
      [] kind = "entry_point" -> LC_MAIN

CastBody(kind) ==
    CASE kind = "segment_32" -> SegmentCommand32Size
      [] kind = "segment_64" -> SegmentCommand64Size
      [] kind = "symtab" -> SymtabCommandSize
      [] kind = "uuid" -> UuidCommandSize
      [] kind = "entry_point" -> EntryPointCommandSize

\* C9: a typed cast of a command view is Ok(None) when the view's cmd is not
\* the cast's command id, whatever the bytes; Ok(Some(the body at offset 0))
\* when cmd matches and the view is at least as long as the body; an error
\* when cmd matches and the view is shorter.  The segment casts also return
\* exactly the bytes of the view after the segment command record.
C9_TypedCasts ==
    op = "cast" =>
        LET c == cur.command
            need == CastBody(cur.kind)
        IN  IF c.cmd # CastId(cur.kind) THEN ret = OkNone
            ELSE IF c.data.hi - c.data.lo >= need
            THEN /\ IsSome(ret)
                 /\ IF cur.kind \in {"segment_32", "segment_64"}
                    THEN ret.val = [command |-> c.data.lo,
                                    data |-> [lo |-> c.data.lo + need, hi |-> c.data.hi]]
                    ELSE ret.val = c.data.lo
            ELSE IsErr(ret)

C9_Witness ==
    /\ op = "cast" /\ cur.kind \in {"segment_32", "segment_64"} /\ IsSome(ret)
    /\ ret.val.data.hi - ret.val.data.lo = 8

\* C10: mach_uuid is an error when the load command table is out of range;
\* else, walking the commands, it is the 16 bytes of the first LC_UUID
\* command reached when that command is long enough and an error when it is
\* too short; with no LC_UUID reached it is Ok(None) when all ncmds commands
\* were read and an error when a frame could not be read.
C10_MachUuid ==
    op = "mach_uuid" =>
        LET ks == {k \in 1..Len(FileWalk.frames) : FileWalk.frames[k].cmd = LC_UUID}
        IN  IF IsErr(load_commands(data, file.header, is64, file.endian, file.data))
            THEN IsErr(ret)
            ELSE IF ks # {}
            THEN LET c == FileWalk.frames[Min(ks)].data
                 IN  IF c.hi - c.lo >= 24
                     THEN ret = OkSome(SubSeq(data, c.lo + 9, c.lo + 24))
                     ELSE IsErr(ret)
            ELSE IF IsNone(FileWalk.end) THEN ret = OkNone
            ELSE IsErr(ret)

C10_Witness ==
    /\ op = "mach_uuid" /\ IsErr(ret) /\ pc = "parsed"
    /\ ret.msg = "Invalid Mach-O LC_UUID command size"
    /\ Len(FileWalk.frames) = 2

-----------------------------------------------------------------------------
(* entry and the segments.                                                 *)

\* The positions of the LC_MAIN frames.
MainFrames(frames) == {k \in 1..Len(frames) : frames[k].cmd = LC_MAIN}

\* The entryoff of the LC_MAIN frame c.
EntryOff(c) == Val(get(data, c.data.lo + 8, 8, file.endian))

\* C11 as the specification states it: entry is the entryoff of the first
\* LC_MAIN command of the stream and 0 when there is none; when the first
\* LC_MAIN is too short for its body, entry is not the entryoff of a later
\* LC_MAIN.
C11_EntryOfFirstMain ==
    op = "entry" =>
        LET frames == FileWalk.frames
            ks == MainFrames(frames)
        IN  IF ks = {} THEN ret = 0
            ELSE IF frames[Min(ks)].data.hi - frames[Min(ks)].data.lo >= 24
            THEN ret = EntryOff(frames[Min(ks)])
            ELSE \A k \in ks :
                    frames[k].data.hi - frames[k].data.lo >= 24 => ret # EntryOff(frames[k])

\* The segment commands of the file's width among the frames.
RECURSIVE OwnSegments(_)
OwnSegments(frames) ==
    IF frames = <<>> THEN <<>>
    ELSE (IF Head(frames).cmd = (IF is64 THEN LC_SEGMENT_64 ELSE LC_SEGMENT)
          THEN <<Head(frames).data.lo>> ELSE <<>>) \o OwnSegments(Tail(frames))

\* C12: on a parsed file segments() yields, in stream order, exactly the
\* segment commands of the file's width that come before the first frame
\* next cannot read, then None, and None again on every later call; it
\* yields no error, and no segment placed after such a frame.
C12_SegmentsEndSilently ==
    op = "segments" =>
        LET own == OwnSegments(FileWalk.frames)
        IN  /\ Len(out) <= Len(own)
            /\ out = SubSeq(own, 1, Len(out))
            /\ ret.tag \in {"NotCalled", "Some", "None"}
            /\ IsNone(ret) => out = own
            /\ \A k \in 1..Len(out) : out[k] + SegmentSize(is64) <= Len(data)

\* An unreadable frame stands before a segment command of the file's width,
\* and the iterator has ended without it.
C12_Witness ==
    /\ op = "segments" /\ IsNone(ret) /\ out = <<>>
    /\ IsErr(FileWalk.end)
    /\ Len(data) >= HeaderSize(is64) + 12
    /\ get32(data, HeaderSize(is64) + 8, file.endian)
          = (IF is64 THEN LC_SEGMENT_64 ELSE LC_SEGMENT)

-----------------------------------------------------------------------------
(* The symbol map.                                                         *)

\* C13: the symbol map is sorted by ascending address, holds no symbol of
\* kind Section, and of two neighbours a, b with a.address < b.address,
\* a.size <= b.address - a.address.
C13_SymbolMapSorted ==
    op = "symbol_map" =>
        /\ \A i, j \in 1..Len(ret) : i < j => ret[i].address <= ret[j].address
        /\ \A i \in 1..Len(ret) : ret[i].kind # "Section"
        /\ \A i \in 1..(Len(ret) - 1) :
              ret[i].address < ret[i + 1].address =>
                  ret[i].size <= ret[i + 1].address - ret[i].address

C13_Witness ==
    /\ op = "symbol_map" /\ Len(ret) >= 3
    /\ Len(ret) < Len(out)
    /\ \E i \in 1..Len(out) : out[i].kind = "Section"
    /\ \E i \in 1..(Len(ret) - 1) : ret[i].address < ret[i + 1].address

\* The symbols of the file in the order of the symbol array, each read with
\* symbol_by_index, from position i on.
RECURSIVE SymbolsFrom(_)
SymbolsFrom(i) ==
    IF i >= file.symbols.symbols.n THEN <<>>
    ELSE LET s == symbol_by_index(data, file, is64, i)
         IN  (IF IsSome(s) THEN <<[index |-> i, symbol |-> s.val]>> ELSE <<>>)
                \o SymbolsFrom(i + 1)

\* The end address of the k-th section, read from its record.
SectionEnd(k) ==
    LET sec == file.sections[k].section
        w == IF is64 THEN 8 ELSE 4
    IN  Val(get(data, sec + 32, w, file.endian)) + Val(get(data, sec + 32 + w, w, file.endian))

\* C14: before the filter, the list holds the emitted symbols and one
\* sentinel per section, ordered by address, a sentinel after every real
\* symbol of its address and real symbols of one address in the order they
\* were emitted; the size of a real symbol is next.address - its address
\* for the first later entry next that is a sentinel or has a greater
\* address, and 0 when there is none.  So real symbols of one address have
\* one size, and a real symbol at the end address of a section has size 0.
C14_SymbolMapSizes ==
    op = "symbol_map" =>
        LET IsEnd(x) == x.kind = "Section"
            IsReal(x) == x.kind # "Section"
            emitted == SymbolsFrom(0)
            wanted == [k \in 1..Len(emitted) |->
                          [emitted[k].symbol EXCEPT !.address = Val(@)]]
            reals == SelectSeq(out, IsReal)
            unsized == [k \in 1..Len(reals) |-> [reals[k] EXCEPT !.size = 0]]
            ends == SelectSeq(out, IsEnd)
            addrs == {out[k].address : k \in 1..Len(out)}
                        \cup {wanted[k].address : k \in 1..Len(wanted)}
                        \cup {SectionEnd(k) : k \in 1..Len(file.sections)}
            Later(i) == {j \in (i + 1)..Len(out) :
                            IsEnd(out[j]) \/ out[j].address > out[i].address}
        IN  /\ Len(reals) = Len(wanted)
            /\ Len(ends) = Len(file.sections)
            /\ \A a \in addrs :
                  LET At(x) == x.address = a
                  IN  /\ SelectSeq(unsized, At) = SelectSeq(wanted, At)
                      /\ Len(SelectSeq(ends, At))
                            = Cardinality({k \in 1..Len(file.sections) : SectionEnd(k) = a})
            /\ \A i, j \in 1..Len(out) :
                  i < j => /\ out[i].address <= out[j].address
                           /\ (out[i].address = out[j].address /\ IsEnd(out[i]))
                                 => IsEnd(out[j])
            /\ \A i \in 1..Len(out) :
                  IF IsReal(out[i]) /\ Later(i) # {}
                  THEN out[i].size = out[Min(Later(i))].address - out[i].address
                  ELSE out[i].size = 0
            /\ \A i, j \in 1..Len(out) :
                  (IsReal(out[i]) /\ IsReal(out[j]) /\ out[i].address = out[j].address)
                      => out[i].size = out[j].size
            /\ \A i \in 1..Len(out) :
                  (IsReal(out[i]) /\ \E k \in 1..Len(file.sections) :
                                        SectionEnd(k) = out[i].address)
                      => out[i].size = 0

\* Two real symbols share an address and have a size, a third stands at the
\* end of a section, and the last symbol has nothing after it.
C14_Witness ==
    /\ op = "symbol_map"
    /\ \E i, j \in 1..Len(out) :
          /\ i < j /\ out[i].kind # "Section" /\ out[j].kind # "Section"
          /\ out[i].address = out[j].address /\ out[i].size > 0
    /\ \E i \in 1..Len(out) :
          /\ out[i].kind # "Section"
          /\ \E k \in 1..Len(file.sections) : SectionEnd(k) = out[i].address
    /\ out[Len(out)].kind # "Section"

-----------------------------------------------------------------------------
(* The decoding of a symbol.                                               *)

\* The symbol kind the kind of a section gives.
KindOfSectionKind(k) ==
    CASE k = "Text" -> "Text"
      [] k \in {"Data", "ReadOnlyData", "ReadOnlyString", "UninitializedData", "Common"}
            -> "Data"
      [] k \in {"Tls", "UninitializedTls", "TlsVariables"} -> "Tls"
      [] OTHER -> "Unknown"

\* C19: for every nlist that is not N_STAB the emitted symbol has: kind from
\* the classifier kind of the section numbered n_sect, Unknown when the
\* symbol has no section or n_sect is out of range; weak exactly when
\* n_desc has N_WEAK_REF or N_WEAK_DEF; scope Unknown for N_UNDF even with
\* N_EXT, else Compilation without N_EXT, else Linkage with N_PEXT, else
\* Dynamic; section Unknown for N_SECT with n_sect = 0; name None when the
\* name is out of the string table or not UTF-8; size 0; address n_value;
\* and no such nlist is dropped.
C19_SymbolDecoding ==
    /\ \A s \in Emitted :
          LET nl == file.symbols.symbols.off + s.index * (IF is64 THEN 16 ELSE 12)
              type == data[nl + 5]
              sect == data[nl + 6]
              desc == Val(get(data, nl + 6, 2, file.endian))
              strx == Val(get32(data, nl, file.endian))
              strings == file.symbols.strings
              t == ((type \div 2) % 8) * 2
              ext == type % 2 = 1
              pext == (type \div 16) % 2 = 1
              sy == s.symbol
          IN  /\ type < 32
              /\ sy.kind = IF t = 14 /\ sect >= 1 /\ sect <= Len(file.sections)
                           THEN KindOfSectionKind(file.sections[sect].kind)
                           ELSE "Unknown"
              /\ sy.weak <=> ((desc \div 64) % 4 # 0)
              /\ sy.scope = IF t = 0 THEN "Unknown"
                            ELSE IF ~ext THEN "Compilation"
                            ELSE IF pext THEN "Linkage"
                            ELSE "Dynamic"
              /\ (t = 14 /\ sect = 0) => sy.section = [tag |-> "Unknown", index |-> 0]
              /\ t = 0 => sy.section.tag = "Undefined"
              /\ t = 2 => sy.section.tag = "Absolute"
              /\ strx > strings.hi - strings.lo => ~sy.name.some
              /\ sy.name.some =>
                    /\ \A i \in 1..Len(sy.name.val) :
                          sy.name.val[i] = data[strings.lo + strx + i] /\ sy.name.val[i] # 0
                    /\ data[strings.lo + strx + Len(sy.name.val) + 1] = 0
                    /\ from_utf8_ok(sy.name.val)
              /\ sy.size = 0
              /\ sy.address = get(data, nl + 8, IF is64 THEN 8 ELSE 4, file.endian)
    /\ op = "symbols" =>
          \A i \in 0..(cur - 1) :
              data[file.symbols.symbols.off + i * (IF is64 THEN 16 ELSE 12) + 5] < 32
                  => \E k \in 1..Len(out) : out[k].index = i

\* An undefined external symbol whose name is not UTF-8, an N_SECT symbol of
\* section 0 with its name outside the string table and a weak symbol of a
\* section past the last have all been emitted.
C19_Witness ==
    /\ op = "symbols" /\ IsNone(ret)
    /\ \E s \in Emitted :
          /\ s.symbol.section.tag = "Undefined" /\ s.symbol.scope = "Unknown"
          /\ ~s.symbol.name.some
    /\ \E s \in Emitted :
          /\ s.symbol.section.tag = "Unknown" /\ s.symbol.scope = "Linkage"
          /\ ~s.symbol.name.some
    /\ \E s \in Emitted : s.symbol.weak /\ s.symbol.kind = "Unknown"
    /\ \E s \in Emitted : s.symbol.kind \in {"Data", "Tls"}

\* C20: symbol_by_index(i) is an error when i is no position of the symbol
\* array and when the entry at i is N_STAB, and else the symbol symbols()
\* emits with index i; so symbols() emits exactly the indices at which
\* symbol_by_index succeeds, and dynamic_symbols() emits what symbols() does.
C20_SymbolByIndex ==
    /\ op \in {"symbols", "dynamic_symbols"} =>
          LET all == SymbolsFrom(0)
          IN  /\ Len(out) <= Len(all)
              /\ out = SubSeq(all, 1, Len(out))
              /\ IsNone(ret) => out = all
              /\ \A i \in 0..(cur - 1) :
                    IsSome(symbol_by_index(data, file, is64, i))
                        <=> \E k \in 1..Len(out) : out[k].index = i
    /\ op = "symbol_by_index" =>
          IF cur < file.symbols.symbols.n /\ ~IsStab(cur)
          THEN IsSome(ret)
          ELSE IsErr(ret)

C20_Witness ==
    /\ op = "dynamic_symbols" /\ IsNone(ret) /\ Len(out) = 2
    /\ out[1].index = 1 /\ out[2].index = 2
    /\ IsErr(symbol_by_index(data, file, is64, 0))

-----------------------------------------------------------------------------
(* The data and the file range of a section.                               *)

\* The section type, offset and size read from the record of the i-th
\* section of the file.
SecFlagsAt(i) == file.sections[i].section + (IF is64 THEN 64 ELSE 56)
SecType(i) ==
    IF file.endian = "big" THEN data[SecFlagsAt(i) + 4] ELSE data[SecFlagsAt(i) + 1]
SecOffset(i) == Val(get32(data, file.sections[i].section + (IF is64 THEN 48 ELSE 40), file.endian))
SecSize(i) ==
    IF is64 THEN Val(get(data, file.sections[i].section + 40, 8, file.endian))
    ELSE Val(get32(data, file.sections[i].section + 36, file.endian))
SecZeroFill(i) == SecType(i) \in {1, 12, 18}

\* C15: for a section whose type is none of the three zero-fill types,
\* file_range() is (offset, size) and data() is the size bytes of the buffer
\* from offset on when offset + size fits in the buffer and an error
\* otherwise; for a zero-fill type file_range() is None and data() is the
\* empty slice, whatever offset and size are.
C15_SectionData ==
    op = "section_data" =>
        IF SecZeroFill(cur)
        THEN out = OkNone /\ IsSome(ret) /\ Content(data, ret.val) = <<>>
        ELSE /\ out = OkSome([offset |-> SecOffset(cur), size |-> SecSize(cur)])
             /\ IF SecOffset(cur) + SecSize(cur) <= Len(data)
                THEN /\ IsSome(ret)
                     /\ Content(data, ret.val)
                            = SubSeq(data, SecOffset(cur) + 1, SecOffset(cur) + SecSize(cur))
                ELSE IsErr(ret)

\* data() of a zero-fill section whose offset lies outside the buffer, in a
\* file that also has a section with bytes and a section whose range does
\* not fit.
C15_Witness ==
    /\ op = "section_data"
    /\ SecZeroFill(cur) /\ SecOffset(cur) > Len(data) /\ SecSize(cur) > 0
    /\ IsSome(ret) /\ BLen(ret.val) = 0
    /\ \E j, k \in 1..Len(file.sections) :
          /\ ~SecZeroFill(j) /\ SecSize(j) > 0
          /\ IsSome(MachOSection_data(data, file, is64, file.sections[j]))
          /\ ~SecZeroFill(k)
          /\ IsErr(MachOSection_data(data, file, is64, file.sections[k]))

-----------------------------------------------------------------------------
(* Looking a section up by its name.                                       *)

\* The sectname of the k-th section of the file, up to its first NUL.
SectName(k) == TrimNul([i \in 1..16 |-> data[file.sections[k].section + i]])

\* The k-th section has a UTF-8 name that is n, or n is ".x" and the name
\* is "__x".
NameEqual(n, k) == SectName(k) = n
NameAlias(n, k) ==
    /\ Len(n) >= 1 /\ n[1] = 46
    /\ Len(SectName(k)) >= 2 /\ SectName(k)[1] = 95 /\ SectName(k)[2] = 95
    /\ Len(n) - 1 = Len(SectName(k)) - 2
    /\ \A i \in 1..(Len(n) - 1) : n[1 + i] = SectName(k)[2 + i]
NameMatches(n, k) ==
    from_utf8_ok(SectName(k)) /\ (NameEqual(n, k) \/ NameAlias(n, k))

\* C16: section_by_name(name) returns the first section in index order whose
\* UTF-8 sectname equals name or, when name starts with '.', whose sectname
\* is "__" followed by the rest of name after the '.'; it returns none when
\* no section matches, never returns a section with a non-UTF-8 name, and a
\* name without a leading '.' only matches by equality.  has_debug_symbols()
\* is true exactly when some section matches ".debug_info".
C16_SectionByName ==
    /\ op = "section_by_name" =>
          LET M == {k \in 1..Len(file.sections) : NameMatches(cur, k)}
          IN  /\ M = {} => ret = OkNone
              /\ M # {} =>
                    /\ IsSome(ret)
                    /\ ret.val.index \in M
                    /\ \A k \in M : ret.val.index <= k
                    /\ ret.val = file.sections[ret.val.index]
                    /\ from_utf8_ok(SectName(ret.val.index))
                    /\ cur[1] # 46 => SectName(ret.val.index) = cur
    /\ op = "has_debug_symbols" =>
          ret = (\E k \in 1..Len(file.sections) :
                    NameMatches(<<46, 100, 101, 98, 117, 103, 95, 105, 110, 102, 111>>, k))

\* A lookup of ".text" answered through the "__" alias by a section that
\* comes before a section named ".text" itself, in a file that also has a
\* section with a non-UTF-8 name.
C16_Witness ==
    /\ op = "section_by_name" /\ cur = <<46, 116, 101, 120, 116>>
    /\ IsSome(ret)
    /\ SectName(ret.val.index) = <<95, 95, 116, 101, 120, 116>>
    /\ \E k \in 1..Len(file.sections) : k > ret.val.index /\ SectName(k) = cur
    /\ \E k \in 1..Len(file.sections) : ~from_utf8_ok(SectName(k))

-----------------------------------------------------------------------------
(* The decoding of a relocation.                                           *)

\* The fields of the relocation record at offset r of the buffer, read from
\* its bytes: r_word1 keeps r_symbolnum in its first three bytes on disk and
\* the other fields in its last byte, from the low bits up in a
\* little-endian file and from the high bits down in a big-endian one.
LittleFile == file.endian = "little"
RelAddress(r) ==
    IF LittleFile THEN <<data[r + 4], data[r + 3], data[r + 2], data[r + 1]>>
    ELSE <<data[r + 1], data[r + 2], data[r + 3], data[r + 4]>>
RelSymbolnum(r) ==
    IF LittleFile THEN data[r + 5] + 256 * data[r + 6] + 65536 * data[r + 7]
    ELSE 65536 * data[r + 5] + 256 * data[r + 6] + data[r + 7]
RelPcrel(r) ==
    IF LittleFile THEN data[r + 8] % 2 = 1 ELSE data[r + 8] >= 128
RelLength(r) ==
    IF LittleFile THEN (data[r + 8] \div 2) % 4 ELSE (data[r + 8] \div 32) % 4
RelExtern(r) ==
    IF LittleFile THEN (data[r + 8] \div 8) % 2 = 1 ELSE (data[r + 8] \div 16) % 2 = 1
RelType(r) ==
    IF LittleFile THEN data[r + 8] \div 16 ELSE data[r + 8] % 16

\* The cputype of the header, most significant byte first.
FileCpu ==
    IF LittleFile THEN <<data[8], data[7], data[6], data[5]>>
    ELSE <<data[5], data[6], data[7], data[8]>>

\* The table of kinds and encodings.
RelKindTable(cpu, t, p) ==
    IF <<cpu, t, p>> \in {<<"arm", 0, FALSE>>, <<"arm64", 0, FALSE>>,
                          <<"x86", 0, FALSE>>, <<"x86_64", 0, FALSE>>}
    THEN [kind |-> [tag |-> "Absolute"], encoding |-> "Generic"]
    ELSE IF <<cpu, t, p>> = <<"x86_64", 1, TRUE>>
    THEN [kind |-> [tag |-> "Relative"], encoding |-> "X86RipRelative"]
    ELSE IF <<cpu, t, p>> = <<"x86_64", 2, TRUE>>
    THEN [kind |-> [tag |-> "Relative"], encoding |-> "X86Branch"]
    ELSE IF <<cpu, t, p>> = <<"x86_64", 4, TRUE>>
    THEN [kind |-> [tag |-> "GotRelative"], encoding |-> "Generic"]
    ELSE IF <<cpu, t, p>> = <<"x86_64", 3, TRUE>>
    THEN [kind |-> [tag |-> "GotRelative"], encoding |-> "X86RipRelativeMovq"]
    ELSE [kind |-> [tag |-> "MachO", value |-> t, relative |-> p], encoding |-> "Generic"]

CpuName ==
    IF FileCpu = <<0, 0, 0, 7>> THEN "x86"
    ELSE IF FileCpu = <<1, 0, 0, 7>> THEN "x86_64"
    ELSE IF FileCpu = <<0, 0, 0, 12>> THEN "arm"
    ELSE IF FileCpu = <<1, 0, 0, 12>> THEN "arm64"
    ELSE "other"

\* The record the iterator has just decoded.
LastReloc == cur.it.off - 8

\* C17: the item the relocation iterator emits for a record is its reference
\* decoding: offset r_address; kind and encoding by the table on (cputype,
\* r_type, r_pcrel), every combination the table does not list being
\* MachO{value = r_type, relative = r_pcrel} with the Generic encoding; size
\* 8 << r_length; target Symbol(r_symbolnum) when r_extern and
\* Section(r_symbolnum) otherwise; addend -4 when r_pcrel and 0 otherwise;
\* implicit_addend true.
C17_RelocationDecoding ==
    (op = "relocations" /\ IsSome(ret)) =>
        /\ ret.val.offset = RelAddress(LastReloc)
        /\ ret.val.kind = RelKindTable(CpuName, RelType(LastReloc), RelPcrel(LastReloc)).kind
        /\ ret.val.encoding
              = RelKindTable(CpuName, RelType(LastReloc), RelPcrel(LastReloc)).encoding
        /\ \E k \in 0..3 : k = RelLength(LastReloc) /\ ret.val.size = 8 * (2 ^ k)
        /\ ret.val.target
              = [tag |-> IF RelExtern(LastReloc) THEN "Symbol" ELSE "Section",
                 index |-> RelSymbolnum(LastReloc)]
        /\ ret.val.addend = (IF RelPcrel(LastReloc) THEN -4 ELSE 0)
        /\ ret.val.implicit_addend = TRUE

\* The x86-64 record (X86_64_RELOC_GOT_LOAD, pcrel, length 2, extern, symbol
\* 7, address 0x20) decoded.
C17_Witness ==
    /\ op = "relocations" /\ IsSome(ret)
    /\ CpuName = "x86_64"
    /\ RelType(LastReloc) = 3 /\ RelPcrel(LastReloc) /\ RelLength(LastReloc) = 2
    /\ RelExtern(LastReloc) /\ RelSymbolnum(LastReloc) = 7
    /\ ret.val = [offset |-> <<0, 0, 0, 32>>, kind |-> [tag |-> "GotRelative"],
                  encoding |-> "X86RipRelativeMovq", size |-> 32,
                  target |-> [tag |-> "Symbol", index |-> 7], addend |-> -4,
                  implicit_addend |-> TRUE]

-----------------------------------------------------------------------------
(* The relocation iterator of a section.                                   *)

\* reloff and nreloc of the i-th section of the file, and the offsets of
\* the records of its relocation array when the array lies in the buffer.
SecReloff(i) == Val(get32(data, file.sections[i].section + (IF is64 THEN 56 ELSE 48), file.endian))
SecNreloc(i) == Val(get32(data, file.sections[i].section + (IF is64 THEN 60 ELSE 52), file.endian))
RelocsFit(i) == SecNreloc(i) <= Len(data) /\ SecReloff(i) + 8 * SecNreloc(i) <= Len(data)
RelocArray(i) ==
    IF RelocsFit(i) THEN [k \in 1..SecNreloc(i) |-> SecReloff(i) + 8 * (k - 1)] ELSE <<>>

\* The record at offset r is scattered: the highest bit of r_address is set,
\* in a file of a cputype that has scattered relocations.
RelScattered(r) == CpuName # "x86_64" /\ RelAddress(r)[1] >= 128
RelPlain(r) == ~RelScattered(r)

\* The records of the i-th section the iterator is to emit, in order.
PlainRelocs(i) == SelectSeq(RelocArray(i), RelPlain)

\* C18: the relocation iterator of a section emits, in the order of the
\* array, one item for each record that is not scattered and nothing for a
\* scattered one; a scattered record neither ends the iteration nor fails
\* it, the records after it are emitted; the iterator is empty when reloff
\* and nreloc do not fit in the buffer.
C18_RelocationsSkipScattered ==
    op = "relocations" =>
        /\ ~IsErr(ret)
        /\ Len(out) <= Len(PlainRelocs(cur.section))
        /\ \A j \in 1..Len(out) :
              /\ out[j].offset = RelAddress(PlainRelocs(cur.section)[j])
              /\ out[j].target.index = RelSymbolnum(PlainRelocs(cur.section)[j])
        /\ IsSome(ret) => LastReloc = PlainRelocs(cur.section)[Len(out)]
        /\ IsNone(ret) => Len(out) = Len(PlainRelocs(cur.section))
        /\ ~RelocsFit(cur.section) => out = <<>>

\* An iteration that has ended over an array of a scattered record followed
\* by a plain one, the plain one emitted, in a file that also has a section
\* whose array does not fit in the buffer.
C18_Witness ==
    /\ op = "relocations" /\ IsNone(ret)
    /\ Len(RelocArray(cur.section)) = 2
    /\ RelScattered(RelocArray(cur.section)[1])
    /\ RelPlain(RelocArray(cur.section)[2])
    /\ Len(out) = 1 /\ out[1].offset = RelAddress(RelocArray(cur.section)[2])
    /\ \E i \in 1..Len(file.sections) :
          /\ ~RelocsFit(i) /\ SecNreloc(i) > 0
          /\ MachOSection_relocations(data, file, is64, file.sections[i]).n = 0

-----------------------------------------------------------------------------
(* Overflow in the symbol map.                                             *)

\* The addr and size of the k-th section in 16-bit limbs, the most
\* significant first, and the carry out of their sum.
SecWord(k, off) ==
    LET w == IF is64 THEN 8 ELSE 4
        v == get(data, file.sections[k].section + off, w, file.endian)
    IN  IF is64 THEN v ELSE <<0, 0, 0, 0>> \o v
Limb(w, j) == w[2 * j - 1] * 256 + w[2 * j]
SecAddrWord(k) == SecWord(k, 32)
SecSizeWord(k) == SecWord(k, 32 + (IF is64 THEN 8 ELSE 4))
RECURSIVE LimbCarry(_, _)
LimbCarry(k, j) ==
    IF j = 5 THEN 0
    ELSE (Limb(SecAddrWord(k), j) + Limb(SecSizeWord(k), j) + LimbCarry(k, j + 1)) \div 65536
SecEndOverflows(k) == LimbCarry(k, 1) = 1

\* The exact sum addr + size of the k-th section as the map keeps addresses.
SecEndExact(k) ==
    IF SecEndOverflows(k) THEN Huge
    ELSE Val([i \in 1..8 |->
                LET j == (i + 1) \div 2
                    l == (Limb(SecAddrWord(k), j) + Limb(SecSizeWord(k), j)
                            + LimbCarry(k, j + 1)) % 65536
                IN  IF i % 2 = 1 THEN l \div 256 ELSE l % 256])

\* C22: symbol_map() never overflows: it does not panic, the address of the
\* sentinel of every section, 64-bit ones included, is the exact sum of the
\* section's address and size without wrap-around, and every size computed
\* as next.address - symbol.address is non-negative.
C22_SymbolMapNoOverflow ==
    /\ op # "symbol_map_panic"
    /\ op = "symbol_map" =>
          /\ \A k \in 1..Len(file.sections) :
                /\ ~SecEndOverflows(k)
                /\ \E i \in 1..Len(out) :
                      out[i].kind = "Section" /\ out[i].address = SecEndExact(k)
          /\ \A i \in 1..Len(out) : out[i].size >= 0

-----------------------------------------------------------------------------
(* Several iterators and accessors on one file.                            *)

\* The file parse builds from the buffer.
RECURSIVE ParseRun(_)
ParseRun(r) == IF r.pc = "loop" THEN ParseRun(parse_step(data, is64, r.st)) ELSE r
ParsedFile == ParseRun(parse_begin(data, is64)).file

\* What each iterator yields when it runs alone on the file.
RECURSIVE AloneSegmentsFrom(_)
AloneSegmentsFrom(it) ==
    LET n == MachOSegmentIterator_next(data, is64, file.endian, it)
    IN  IF IsSome(n.res) THEN <<n.res.val>> \o AloneSegmentsFrom(n.it) ELSE <<>>
AloneSegments == AloneSegmentsFrom(segments(data, file, is64))
AloneSections == file.sections
RECURSIVE AloneSymbolsFrom(_)
AloneSymbolsFrom(index) ==
    LET n == MachOSymbolIterator_next(data, file, is64, index)
    IN  IF IsSome(n.res) THEN <<n.res.val>> \o AloneSymbolsFrom(n.index) ELSE <<>>
AloneSymbols == AloneSymbolsFrom(0)
RECURSIVE AloneRelocationsFrom(_)
AloneRelocationsFrom(it) ==
    LET n == MachORelocationIterator_next(data, file, it)
    IN  IF IsSome(n.res) THEN <<n.res.val>> \o AloneRelocationsFrom(n.it) ELSE <<>>

\* The relocations of the sections of the file, each run alone.
AloneRelocations ==
    {AloneRelocationsFrom(MachOSection_relocations(data, file, is64,
                                                   file.sections[k])) :
        k \in 1..Len(file.sections)}
        \cup (IF file.sections = <<>> THEN {<<>>} ELSE {})

IsPrefix(p, q) == Len(p) <= Len(q) /\ p = SubSeq(q, 1, Len(p))

\* The iterator has yielded part of what it yields alone, and goes on when
\* something is left.
SharedIteratorsAsAlone ==
    /\ IsPrefix(out.segments, AloneSegments)
    /\ Len(out.segments) < Len(AloneSegments) =>
          Len(shared_segments_next(data, file, is64, cur, out).out.segments)
              = Len(out.segments) + 1
    /\ IsPrefix(out.sections, AloneSections)
    /\ Len(out.sections) < Len(AloneSections) =>
          Len(shared_sections_next(data, file, is64, cur, out).out.sections)
              = Len(out.sections) + 1
    /\ IsPrefix(out.symbols, AloneSymbols)
    /\ Len(out.symbols) < Len(AloneSymbols) =>
          Len(shared_symbols_next(data, file, is64, cur, out).out.symbols)
              = Len(out.symbols) + 1
    /\ \E q \in AloneRelocations :
          /\ IsPrefix(out.relocations, q)
          /\ Len(out.relocations) < Len(q) =>
                Len(shared_relocations_next(data, file, is64, cur, out).out.relocations)
                    = Len(out.relocations) + 1

\* The last accessor call returned what the accessor returns on the file as
\* parse built it.
SharedAccessorAsFirst ==
    ret.acc # "none" =>
        ret.val = accessor_value(data, ParsedFile, is64, ret.acc, ret.arg)

-----------------------------------------------------------------------------
(* The end of the walk over the load commands.                             *)

\* ncmds and sizeofcmds of the header, read from the buffer.
HeaderNcmds == Val(get32(data, 16, file.endian))
HeaderSizeofcmds == Val(get32(data, 20, file.endian))
RECURSIVE SumSizes(_)
SumSizes(cs) == IF cs = <<>> THEN 0 ELSE BLen(Head(cs).data) + SumSizes(Tail(cs))

\* The commands yielded so far are at most ncmds, each spans cmdsize bytes,
\* the first starts the load-command area, each next one starts where the
\* one before it ends, and together they stay within sizeofcmds.
CommandsBounded ==
    op = "load_commands" =>
        /\ Len(out) <= HeaderNcmds
        /\ Len(out) + cur.ncmds = HeaderNcmds
        /\ \A k \in 1..Len(out) :
              /\ out[k].data.lo <= out[k].data.hi
              /\ BLen(out[k].data) = Val(get32(data, out[k].data.lo + 4, file.endian))
              /\ out[k].data.lo = (IF k = 1 THEN (IF is64 THEN 32 ELSE 28)
                                   ELSE out[k - 1].data.hi)
        /\ SumSizes(out) <= HeaderSizeofcmds

\* The next call of next on the load commands yields a command and leaves
\* one command less to yield, or returns the end or an error; it returns
\* the end when no command is left.
CommandStepCounts ==
    op = "load_commands" =>
        LET n == MachOLoadCommandIterator_next(data, file.endian, cur)
        IN  /\ cur.ncmds >= 0
            /\ IsSome(n.res) => n.it.ncmds = cur.ncmds - 1
            /\ ~IsSome(n.res) => (IsNone(n.res) \/ IsErr(n.res)) /\ n.it.ncmds = cur.ncmds
            /\ cur.ncmds = 0 => IsNone(n.res)

\* The next iteration of the loop of parse leaves the loop or leaves fewer
\* commands to read; the next call of next on the segments returns the end
\* or leaves fewer commands to read.
LoopsCountDown ==
    /\ pc = "loop" =>
          LET r == parse_step(data, is64, st)
          IN  /\ st.commands.ncmds >= 0
              /\ r.pc = "loop" => r.st.commands.ncmds < st.commands.ncmds
    /\ op = "segments" =>
          LET n == MachOSegmentIterator_next(data, is64, file.endian, cur)
          IN  /\ cur.ncmds >= 0
              /\ IsSome(n.res) => n.it.ncmds < cur.ncmds
              /\ ~IsSome(n.res) => IsNone(n.res)

\* C23: the load-command iterator ends or fails after at most ncmds commands,
\* also when a command has cmdsize 0; the commands yielded are consecutive
\* ranges of the load-command area that do not overlap and whose cmdsize
\* values sum to at most sizeofcmds; so the loop of parse and the walk over
\* the segments, each step of which uses up a command, end, and entry and
\* mach_uuid return.
C23_CommandWalkEnds ==
    /\ CommandsBounded
    /\ CommandStepCounts
    /\ LoopsCountDown
    /\ op = "entry" => ret >= 0
    /\ op = "mach_uuid" => (IsSome(ret) \/ IsNone(ret) \/ IsErr(ret))

\* A walk that has ended after ncmds = 2 commands, both yielded from one
\* header of cmdsize 0.
C23_Witness ==
    /\ op = "load_commands" /\ IsNone(ret)
    /\ HeaderNcmds = 2 /\ Len(out) = 2
    /\ BLen(out[1].data) = 0 /\ out[2].data = out[1].data

-----------------------------------------------------------------------------
(* The section list against the segments.                                  *)

\* nsects of the segment command at offset seg, read off the bytes.
NsectsAt(seg) == Val(get32(data, seg + (IF is64 THEN 64 ELSE 48), file.endian))

\* The sum of nsects over the first j of the segments yielded.
RECURSIVE SectionsBefore(_)
SectionsBefore(j) == IF j = 0 THEN 0 ELSE SectionsBefore(j - 1) + NsectsAt(out[j])

\* The frames of the file that are segment commands of the other width.
OtherSegments ==
    LET frames == FileWalk.frames
    IN  {k \in 1..Len(frames) :
            frames[k].cmd = (IF is64 THEN LC_SEGMENT ELSE LC_SEGMENT_64)}

\* The command the loop of parse reads next is a segment command of the
\* file's width, whole in the load-command area, whose nsects section
\* records need more bytes than follow its segment record.
UnfitSegmentAhead ==
    /\ pc = "loop" /\ st.commands.ncmds > 0
    /\ BLen(st.commands.data) >= 8
    /\ LET lo == st.commands.data.lo
           cmdsize == Val(get32(data, lo + 4, st.endian))
       IN  /\ [i \in 1..4 |-> data[lo + i]]
                = EncWord(IF is64 THEN LC_SEGMENT_64 ELSE LC_SEGMENT, st.endian)
           /\ cmdsize <= BLen(st.commands.data)
           /\ cmdsize >= SegmentSize(is64)
           /\ Val(get32(data, lo + (IF is64 THEN 64 ELSE 48), st.endian))
                    * SectionSize(is64) > cmdsize - SegmentSize(is64)

\* The sections of the segments yielded so far lie in the section list, the
\* sections of the j-th segment in the run of indices that follows those of
\* the segments before it, in the order of their records; when the segments
\* have ended they are all the sections.
SectionRunsFollowSegments ==
    op = "segments" =>
        /\ SectionsBefore(Len(out)) <= Len(file.sections)
        /\ \A j \in 1..Len(out) : \A i \in 1..NsectsAt(out[j]) :
              LET sec == file.sections[SectionsBefore(j - 1) + i]
              IN  /\ sec.index = SectionsBefore(j - 1) + i
                  /\ sec.section = out[j] + SegmentSize(is64) + (i - 1) * SectionSize(is64)
        /\ IsNone(ret) => Len(file.sections) = SectionsBefore(Len(out))

\* A segment command of the other width is no segment yielded and holds no
\* section of the list.
OtherWidthContributesNothing ==
    op = "segments" =>
        LET frames == FileWalk.frames
        IN  \A k \in OtherSegments :
              /\ \A j \in 1..Len(out) : out[j] # frames[k].data.lo
              /\ \A n \in 1..Len(file.sections) :
                    ~(frames[k].data.lo <= file.sections[n].section
                        /\ file.sections[n].section < frames[k].data.hi)

\* C24: on a parsed file the number of sections is the sum of nsects over
\* the segments segments() yields, and the sections of the j-th segment
\* yielded are a contiguous run of indices following those of the segments
\* before it; a segment command of the other width contributes no segment
\* and no sections; a segment whose nsects section records do not fit in its
\* command makes parse fail.
C24_SectionsFollowSegments ==
    /\ [](SectionRunsFollowSegments /\ OtherWidthContributesNothing)
    /\ [][UnfitSegmentAhead =>
            pc' = "failed" /\ err' = "Invalid Mach-O number of sections"]_vars

\* Both segments of a file have been yielded, the first with one section
\* and the second with two, after a parse that listed three sections.
C24_Witness ==
    /\ op = "segments" /\ IsNone(ret) /\ Len(out) = 2
    /\ NsectsAt(out[1]) = 1 /\ NsectsAt(out[2]) = 2
    /\ Len(file.sections) = 3

====
